---- MODULE Spec2Model ----
(***************************************************************************)
(* Gravity Flip Runner: the physics / collision / gravity-flip core        *)
(* (src/src/player.py, enemies.py, platforms.py, level.py) and the game    *)
(* loop that drives it (src/src/game.py, input_handler.py).                *)
(*                                                                         *)
(* Numbers.  Positions and velocities are Python floats; they are kept     *)
(* here in fixed point, Scale units to the pixel, so that the truncation   *)
(* int(x) of the rect properties is a real conversion.  Widths, heights    *)
(* and rect coordinates are whole pixels, as pygame.Rect keeps them.       *)
(* The GameConfig values are those of a small configuration (GameConfig    *)
(* is a parameter of every constructor), given in these units.             *)
(***************************************************************************)
EXTENDS Integers, Sequences, FiniteSets, TLC

\* ------------------------------------------------------------------ bounds

\* Units per pixel.
Scale == 2

\* GameConfig of the modelled game (velocities in units per tick, sizes in pixels).
\* gravity_strength is kept even, so that the half of it that a falling
\* GravityPlatform adds each tick is a whole number of units.
half_gravity == 1

gravity_strength == 2 * half_gravity

\* A gravity_strength of less than one pixel per tick, as the 0.8 of the
\* GameConfig defaults is.
fine_gravity == 1

max_fall_speed == 4

player_jump_force == 4

player_speed == 5

player_width == 2

player_height == 3

window_width == 6

\* The window of the plane the unit specifications explore, in pixels.
WorldLo == 1

WorldX == 7

WorldY == 9

\* ----------------------------------------------------------------- helpers

Min(a, b) == IF a < b THEN a ELSE b

Max(a, b) == IF a > b THEN a ELSE b

\* Python's int() on a float: truncation toward zero.  Units in, pixels out.
Trunc(v) == IF v >= 0 THEN v \div Scale ELSE -((-v) \div Scale)

\* A whole number of pixels as a position.
Px(n) == n * Scale

\* pygame.Rect(int(x), int(y), width, height).
Rect(x, y, w, h) ==
    [left |-> Trunc(x), top |-> Trunc(y),
     right |-> Trunc(x) + w, bottom |-> Trunc(y) + h]

\* pygame.Rect.colliderect for rects of positive size: open overlap on both axes.
colliderect(a, b) ==
    /\ a.left < b.right
    /\ a.right > b.left
    /\ a.top < b.bottom
    /\ a.bottom > b.top

\* ------------------------------------------- double-precision arithmetic
\*
\* MovingPlatform.progress is a Python float, and the step added to it each tick
\* is speed * direction * 0.01, which is not a binary fraction.  The floats that
\* arise are kept exactly: a non-negative double v is the whole number
\* v * 2^FracBits, written in limbs of LimbBits bits, least significant first.
\* Every double from 2^-7 (0.01 lies above it) up to 256 is such a number, and
\* among them a number is a double when it has at most Mantissa significant bits.

LimbBits == 15
LimbBase == 2^LimbBits
Limbs == 5
FracBits == 59
Mantissa == 53

\* The limb that holds the units bit, and the place of that bit in it.
UnitLimb == FracBits \div LimbBits + 1
UnitBit == 2^(FracBits % LimbBits)

\* The double n, for a whole number n >= 0.
FInt(n) ==
    [i \in 1..Limbs |->
        IF i = UnitLimb THEN (n % (LimbBase \div UnitBit)) * UnitBit
        ELSE IF i = UnitLimb + 1 THEN n \div (LimbBase \div UnitBit)
        ELSE 0]

FZero == FInt(0)

FOne == FInt(1)

\* The double nearest to 0.01: 5764607523034235 * 2^-59.
Hundredth == <<5243, 3932, 27525, 163, 0>>

\* Carries (or borrows) propagated from limb i up; the top limb takes the rest.
RECURSIVE Carry(_, _, _)
Carry(a, i, c) ==
    LET t == a[i] + c
    IN  IF i = Len(a) THEN <<t>>
        ELSE <<t % LimbBase>> \o Carry(a, i + 1, t \div LimbBase)

\* Exact sum, exact difference (for a >= b) and exact product by a small whole
\* number n >= 0.
FSum(a, b) == Carry([i \in 1..Limbs |-> a[i] + b[i]], 1, 0)

FDiff(a, b) == Carry([i \in 1..Limbs |-> a[i] - b[i]], 1, 0)

FTimes(a, n) == Carry([i \in 1..Limbs |-> a[i] * n], 1, 0)

\* a < b, comparing from limb i down.
RECURSIVE FLessFrom(_, _, _)
FLessFrom(a, b, i) ==
    IF i = 0 THEN FALSE
    ELSE IF a[i] # b[i] THEN a[i] < b[i]
    ELSE FLessFrom(a, b, i - 1)

FLess(a, b) == FLessFrom(a, b, Limbs)

\* The number of bits of a whole number n >= 0.
RECURSIVE BitLen(_)
BitLen(n) == IF n = 0 THEN 0 ELSE 1 + BitLen(n \div 2)

\* The number of significant bits of a, looking from limb i down.
RECURSIVE FBitsFrom(_, _)
FBitsFrom(a, i) ==
    IF i = 0 THEN 0
    ELSE IF a[i] # 0 THEN LimbBits * (i - 1) + BitLen(a[i])
    ELSE FBitsFrom(a, i - 1)

\* IEEE 754 rounding of an exact result to a double: to Mantissa significant
\* bits, to nearest, ties to even.  The bits rounded away lie in the lowest limb.
FRound(a) ==
    LET bits == FBitsFrom(a, Limbs)
        q == IF bits > Mantissa THEN 2^(bits - Mantissa) ELSE 1
        r == a[1] % q
        odd == ((a[1] \div q) % 2) = 1
        up == 2 * r > q \/ (2 * r = q /\ odd)
    IN  Carry([a EXCEPT ![1] = @ - r + (IF up THEN q ELSE 0)], 1, 0)

\* int() of a non-negative double.
FFloor(a) == a[UnitLimb] \div UnitBit + (LimbBase \div UnitBit) * a[UnitLimb + 1]

\* start + (end - start) * progress as Python computes it, then taken down to the
\* whole unit below it (rect takes it further down to the pixel).
Interpolate(start, end, progress) ==
    LET d == IF end >= start THEN end - start ELSE start - end
        move == FRound(FTimes(progress, d))
    IN  FFloor(FRound(IF end >= start THEN FSum(FInt(start), move)
                      ELSE FDiff(FInt(start), move)))

\* --------------------------------------------------------------- platforms

\* Platform.__init__ (a static platform; the subtype fields stay at rest).
Platform(x, y, w, h) ==
    [type |-> "static", x |-> x, y |-> y, width |-> w, height |-> h,
     start_x |-> x, start_y |-> y, end_x |-> x, end_y |-> y,
     speed |-> 0, progress |-> FZero, direction |-> 1,
     dy |-> 0, gravity_direction |-> 1, is_falling |-> FALSE, original_y |-> y]

\* Platform.rect
Platform_rect(pl) == Rect(pl.x, pl.y, pl.width, pl.height)

\* ------------------------------------------------------------------ player

\* The GameConfig an object is built with when none is passed (the part of it
\* that differs between the players modelled).
default_config == [gravity_strength |-> gravity_strength]

\* Player.__init__: self.config = config or default_config
Player(x, y) ==
    [x |-> x, y |-> y, spawn_x |-> x, spawn_y |-> y, dx |-> 0, dy |-> 0,
     gravity_direction |-> 1, on_ground |-> FALSE,
     facing_right |-> TRUE, is_moving |-> FALSE, config |-> default_config]

\* Player.rect
Player_rect(p) == Rect(p.x, p.y, player_width, player_height)

\* Player.move
Player_move(p, direction) ==
    [p EXCEPT !.dx = direction * player_speed,
              !.is_moving = (direction # 0),
              !.facing_right = IF direction > 0 THEN TRUE
                               ELSE IF direction < 0 THEN FALSE ELSE @]

\* Player.jump: the value returned.
Player_jump_returns(p) == p.on_ground

\* A jump that always pushes toward the top of the screen, whatever the gravity.
Player_jump_upward(p) ==
    IF p.on_ground
    THEN [p EXCEPT !.dy = -player_jump_force, !.on_ground = FALSE]
    ELSE p

\* A jump that keeps the ground contact, so that it can be repeated in the air.
Player_jump_again(p) ==
    IF p.on_ground
    THEN [p EXCEPT !.dy = -player_jump_force * p.gravity_direction]
    ELSE p

\* Player.jump: the player afterwards.
Player_jump(p) ==
    IF p.on_ground
    THEN [p EXCEPT !.dy = -player_jump_force * p.gravity_direction,
                   !.on_ground = FALSE]
    ELSE p

\* A flip that sets inverted gravity instead of toggling.
Player_flip_gravity_inverts(p) ==
    [p EXCEPT !.gravity_direction = -1, !.on_ground = FALSE]

\* Player.flip_gravity
Player_flip_gravity(p) ==
    [p EXCEPT !.gravity_direction = @ * (-1), !.on_ground = FALSE]

\* A gravity that limits the speed downward only, whichever way the player falls.
Player_apply_gravity_clamps_down(p) ==
    [p EXCEPT !.dy = Min(p.dy + p.config.gravity_strength * p.gravity_direction,
                         max_fall_speed)]

\* Player.apply_gravity
Player_apply_gravity(p) ==
    LET dy1 == p.dy + p.config.gravity_strength * p.gravity_direction
    IN  [p EXCEPT !.dy = IF p.gravity_direction > 0
                         THEN Min(dy1, max_fall_speed)
                         ELSE Max(dy1, -max_fall_speed)]

\* Player._check_horizontal_collisions: the loop from platform i on.  player_rect
\* is taken once, before the loop.
RECURSIVE Player_horizontal_loop(_, _, _, _)
Player_horizontal_loop(p, player_rect, plats, i) ==
    IF i > Len(plats) THEN p
    ELSE LET r == Platform_rect(plats[i])
             q == IF colliderect(player_rect, r)
                  THEN IF p.dx > 0 THEN [p EXCEPT !.x = Px(r.left - player_width)]
                       ELSE IF p.dx < 0 THEN [p EXCEPT !.x = Px(r.right)]
                       ELSE p
                  ELSE p
         IN  Player_horizontal_loop(q, player_rect, plats, i + 1)

\* A horizontal pass that stops the player at the wall it touches.
Player_check_horizontal_collisions_stops(p, plats) ==
    LET q == Player_horizontal_loop(p, Player_rect(p), plats, 1)
    IN  IF q.x # p.x THEN [q EXCEPT !.dx = 0] ELSE q

\* Player._check_horizontal_collisions
Player_check_horizontal_collisions(p, plats) ==
    Player_horizontal_loop(p, Player_rect(p), plats, 1)

\* A vertical hit that forgets the ground contact of a landing on a ceiling.
Player_vertical_hit_no_contact(p, r) ==
    IF p.gravity_direction > 0
    THEN IF p.dy > 0
         THEN [p EXCEPT !.y = Px(r.top - player_height), !.dy = 0, !.on_ground = TRUE]
         ELSE IF p.dy < 0 THEN [p EXCEPT !.y = Px(r.bottom), !.dy = 0]
         ELSE p
    ELSE IF p.dy < 0
         THEN [p EXCEPT !.y = Px(r.bottom), !.dy = 0]
         ELSE IF p.dy > 0 THEN [p EXCEPT !.y = Px(r.top - player_height), !.dy = 0]
         ELSE p

\* A vertical hit that takes a bump against a ceiling for a ground contact.
Player_vertical_hit_bump_contact(p, r) ==
    IF p.dy > 0
    THEN [p EXCEPT !.y = Px(r.top - player_height), !.dy = 0, !.on_ground = TRUE]
    ELSE IF p.dy < 0
    THEN [p EXCEPT !.y = Px(r.bottom), !.dy = 0, !.on_ground = TRUE]
    ELSE p

\* A vertical hit that keeps dy, so that every overlapping platform writes y.
Player_vertical_hit_keeps_dy(p, r) ==
    IF p.gravity_direction > 0
    THEN IF p.dy > 0
         THEN [p EXCEPT !.y = Px(r.top - player_height), !.on_ground = TRUE]
         ELSE IF p.dy < 0 THEN [p EXCEPT !.y = Px(r.bottom)]
         ELSE p
    ELSE IF p.dy < 0
         THEN [p EXCEPT !.y = Px(r.bottom), !.on_ground = TRUE]
         ELSE IF p.dy > 0 THEN [p EXCEPT !.y = Px(r.top - player_height)]
         ELSE p

\* Player._check_vertical_collisions: what one overlapping platform does.
Player_vertical_hit(p, r) ==
    IF p.gravity_direction > 0
    THEN IF p.dy > 0
         THEN [p EXCEPT !.y = Px(r.top - player_height), !.dy = 0, !.on_ground = TRUE]
         ELSE IF p.dy < 0 THEN [p EXCEPT !.y = Px(r.bottom), !.dy = 0]
         ELSE p
    ELSE IF p.dy < 0
         THEN [p EXCEPT !.y = Px(r.bottom), !.dy = 0, !.on_ground = TRUE]
         ELSE IF p.dy > 0 THEN [p EXCEPT !.y = Px(r.top - player_height), !.dy = 0]
         ELSE p

\* Player._check_vertical_collisions: the loop from platform i on.
RECURSIVE Player_vertical_loop(_, _, _, _)
Player_vertical_loop(p, player_rect, plats, i) ==
    IF i > Len(plats) THEN p
    ELSE LET r == Platform_rect(plats[i])
             q == IF colliderect(player_rect, r) THEN Player_vertical_hit(p, r) ELSE p
         IN  Player_vertical_loop(q, player_rect, plats, i + 1)

\* Player._check_vertical_collisions
Player_check_vertical_collisions(p, plats) ==
    Player_vertical_loop([p EXCEPT !.on_ground = FALSE], Player_rect(p), plats, 1)

\* Player.update up to and including x += dx, before the horizontal pass.
Player_before_horizontal(p) ==
    LET a == Player_apply_gravity(p)
    IN  [a EXCEPT !.x = @ + a.dx]

\* An update that moves along y before it resolves x.
Player_before_vertical_y_first(p, plats) ==
    LET a == Player_apply_gravity(p)
    IN  Player_check_horizontal_collisions([a EXCEPT !.x = @ + a.dx, !.y = @ + a.dy],
                                           plats)

\* Player.update up to and including y += dy, before the vertical pass.
Player_before_vertical(p, plats) ==
    LET a == Player_apply_gravity(p)
        b == Player_check_horizontal_collisions([a EXCEPT !.x = @ + a.dx], plats)
    IN  [b EXCEPT !.y = @ + b.dy]

\* Player.update
Player_update(p, plats) ==
    Player_check_vertical_collisions(Player_before_vertical(p, plats), plats)

\* A reset that also stops the walk animation.
Player_reset_stops(p) ==
    [p EXCEPT !.x = p.spawn_x, !.y = p.spawn_y, !.dx = 0, !.dy = 0,
              !.gravity_direction = 1, !.on_ground = FALSE, !.is_moving = FALSE]

\* Player.reset
Player_reset(p) ==
    [p EXCEPT !.x = p.spawn_x, !.y = p.spawn_y, !.dx = 0, !.dy = 0,
              !.gravity_direction = 1, !.on_ground = FALSE]

\* Player.set_spawn
Player_set_spawn(p, x, y) == [p EXCEPT !.spawn_x = x, !.spawn_y = y]

\* ------------------------------------------------------------------- enemy

\* Enemy.__init__
Enemy(x, y, w, h, patrol_distance, speed) ==
    [x |-> x, y |-> y, start_x |-> x, width |-> w, height |-> h,
     patrol_distance |-> patrol_distance, speed |-> speed,
     dx |-> speed, dy |-> 0, direction |-> 1,
     gravity_direction |-> 1, on_ground |-> FALSE]

\* Enemy.rect
Enemy_rect(e) == Rect(e.x, e.y, e.width, e.height)

\* A set_gravity that does nothing when the direction is the current one.
Enemy_set_gravity_guarded(e, direction) ==
    IF direction # e.gravity_direction
    THEN [e EXCEPT !.gravity_direction = direction, !.on_ground = FALSE]
    ELSE e

\* Enemy.set_gravity
Enemy_set_gravity(e, direction) ==
    [e EXCEPT !.gravity_direction = direction, !.on_ground = FALSE]

\* An apply_gravity that clamps the fall speed under normal gravity only.
Enemy_apply_gravity_one_sided(e) ==
    LET dy1 == e.dy + gravity_strength * e.gravity_direction
    IN  [e EXCEPT !.dy = IF e.gravity_direction > 0 THEN Min(dy1, max_fall_speed)
                         ELSE dy1]

\* Enemy.apply_gravity
Enemy_apply_gravity(e) ==
    LET gravity == gravity_strength * e.gravity_direction
        dy1 == e.dy + gravity
    IN  [e EXCEPT !.dy = IF e.gravity_direction > 0
                         THEN Min(dy1, max_fall_speed)
                         ELSE Max(dy1, -max_fall_speed)]

\* A patrol that turns only once the enemy is beyond the patrol distance.
Enemy_patrol_beyond(e) ==
    LET distance_from_start == e.x - e.start_x
    IN  IF distance_from_start > e.patrol_distance THEN [e EXCEPT !.direction = -1]
        ELSE IF distance_from_start < -e.patrol_distance THEN [e EXCEPT !.direction = 1]
        ELSE e

\* A patrol that turns a step late, once the enemy is a step past the boundary.
Enemy_patrol_late(e) ==
    LET distance_from_start == e.x - e.start_x
    IN  IF distance_from_start >= e.patrol_distance + e.speed
        THEN [e EXCEPT !.direction = -1]
        ELSE IF distance_from_start <= -e.patrol_distance - e.speed
        THEN [e EXCEPT !.direction = 1]
        ELSE e

\* A patrol that turns back at the right boundary only.
Enemy_patrol_one_way(e) ==
    LET distance_from_start == e.x - e.start_x
    IN  IF distance_from_start >= e.patrol_distance THEN [e EXCEPT !.direction = -1]
        ELSE e

\* Enemy._patrol
Enemy_patrol(e) ==
    LET distance_from_start == e.x - e.start_x
    IN  IF distance_from_start >= e.patrol_distance THEN [e EXCEPT !.direction = -1]
        ELSE IF distance_from_start <= -e.patrol_distance THEN [e EXCEPT !.direction = 1]
        ELSE e

\* A collision that pushes the enemy sideways out of the platform it walked into
\* before it is resolved vertically.
Enemy_hit_sideways(e, r) ==
    LET side == IF e.direction > 0 THEN Px(r.left - e.width) ELSE Px(r.right)
    IN  IF e.dy > 0
        THEN [e EXCEPT !.x = side, !.y = Px(r.top - e.height), !.dy = 0,
                       !.on_ground = (e.gravity_direction > 0)]
        ELSE IF e.dy < 0
        THEN [e EXCEPT !.x = side, !.y = Px(r.bottom), !.dy = 0,
                       !.on_ground = (e.gravity_direction < 0)]
        ELSE e

\* Enemy._check_collisions: what one overlapping platform does.
Enemy_hit(e, r) ==
    IF e.gravity_direction > 0
    THEN IF e.dy > 0
         THEN [e EXCEPT !.y = Px(r.top - e.height), !.dy = 0, !.on_ground = TRUE]
         ELSE IF e.dy < 0 THEN [e EXCEPT !.y = Px(r.bottom), !.dy = 0]
         ELSE e
    ELSE IF e.dy < 0
         THEN [e EXCEPT !.y = Px(r.bottom), !.dy = 0, !.on_ground = TRUE]
         ELSE IF e.dy > 0 THEN [e EXCEPT !.y = Px(r.top - e.height), !.dy = 0]
         ELSE e

\* Enemy._check_collisions: the loop from platform i on.  enemy_rect is taken once.
RECURSIVE Enemy_collisions_loop(_, _, _, _)
Enemy_collisions_loop(e, enemy_rect, plats, i) ==
    IF i > Len(plats) THEN e
    ELSE LET r == Platform_rect(plats[i])
             q == IF colliderect(enemy_rect, r) THEN Enemy_hit(e, r) ELSE e
         IN  Enemy_collisions_loop(q, enemy_rect, plats, i + 1)

\* Enemy._check_collisions
Enemy_check_collisions(e, plats) ==
    Enemy_collisions_loop([e EXCEPT !.on_ground = FALSE], Enemy_rect(e), plats, 1)

\* Enemy.update up to the collision check: gravity, patrol, x and y integrated.
Enemy_before_collisions(e) ==
    LET a == Enemy_patrol(Enemy_apply_gravity(e))
    IN  [a EXCEPT !.x = @ + a.dx * a.direction, !.y = @ + a.dy]

\* Enemy.update
Enemy_update(e, plats) == Enemy_check_collisions(Enemy_before_collisions(e), plats)

\* Hazard.__init__
Hazard(x, y, w, h) == [x |-> x, y |-> y, width |-> w, height |-> h]

\* Hazard.rect
Hazard_rect(h) == Rect(h.x, h.y, h.width, h.height)

\* ------------------------------------------------------- platform subtypes

\* Division of whole numbers, rounded toward zero as int() rounds.
DivTrunc(n, d) == IF n >= 0 THEN n \div d ELSE -((-n) \div d)

\* MovingPlatform.__init__
MovingPlatform(x, y, w, h, end_x, end_y, speed) ==
    [Platform(x, y, w, h) EXCEPT !.type = "moving", !.end_x = end_x,
                                 !.end_y = end_y, !.speed = speed]

\* MovingPlatform.update: the progress after adding speed * direction * 0.01,
\* as <<sign, magnitude>> with sign -1 for a sum below zero (whose magnitude is
\* not needed) and 1 otherwise.
MovingPlatform_advance(pl) ==
    LET step == FRound(FTimes(Hundredth, pl.speed))
    IN  IF pl.direction > 0 THEN <<1, FRound(FSum(pl.progress, step))>>
        ELSE IF FLess(pl.progress, step) THEN <<-1, FZero>>
        ELSE <<1, FRound(FDiff(pl.progress, step))>>

\* An update that turns round at the ends without clamping the progress.
MovingPlatform_update_overshoots(pl) ==
    LET p1 == MovingPlatform_advance(pl)
        a == IF p1[1] > 0 /\ ~FLess(p1[2], FOne)
             THEN [pl EXCEPT !.progress = p1[2], !.direction = -1]
             ELSE IF p1[1] < 0 \/ p1[2] = FZero
             THEN [pl EXCEPT !.progress = FZero, !.direction = 1]
             ELSE [pl EXCEPT !.progress = p1[2]]
    IN  [a EXCEPT !.x = Interpolate(a.start_x, a.end_x, a.progress),
                  !.y = Interpolate(a.start_y, a.end_y, a.progress)]

\* MovingPlatform.update
MovingPlatform_update(pl) ==
    LET p1 == MovingPlatform_advance(pl)
        a == IF p1[1] > 0 /\ ~FLess(p1[2], FOne)
             THEN [pl EXCEPT !.progress = FOne, !.direction = -1]
             ELSE IF p1[1] < 0 \/ p1[2] = FZero
             THEN [pl EXCEPT !.progress = FZero, !.direction = 1]
             ELSE [pl EXCEPT !.progress = p1[2]]
    IN  [a EXCEPT !.x = Interpolate(a.start_x, a.end_x, a.progress),
                  !.y = Interpolate(a.start_y, a.end_y, a.progress)]

\* GravityPlatform.__init__
GravityPlatform(x, y, w, h) == [Platform(x, y, w, h) EXCEPT !.type = "gravity"]

\* A set_gravity that brings the platform to rest when gravity is normal again.
GravityPlatform_set_gravity_settles(pl, direction) ==
    IF direction # pl.gravity_direction
    THEN [pl EXCEPT !.gravity_direction = direction, !.is_falling = (direction < 0)]
    ELSE pl

\* A set_gravity that starts the fall whatever the direction.
GravityPlatform_set_gravity_unguarded(pl, direction) ==
    [pl EXCEPT !.gravity_direction = direction, !.is_falling = TRUE]

\* GravityPlatform.set_gravity
GravityPlatform_set_gravity(pl, direction) ==
    IF direction # pl.gravity_direction
    THEN [pl EXCEPT !.gravity_direction = direction, !.is_falling = TRUE]
    ELSE pl

\* An update that lets a dormant platform fall too.
GravityPlatform_update_always(pl) ==
    LET dy1 == pl.dy + half_gravity * pl.gravity_direction
    IN  [pl EXCEPT !.dy = dy1, !.y = @ + dy1]

\* GravityPlatform.update
GravityPlatform_update(pl) ==
    IF pl.is_falling
    THEN LET dy1 == pl.dy + half_gravity * pl.gravity_direction
         IN  [pl EXCEPT !.dy = dy1, !.y = @ + dy1]
    ELSE pl

\* A reset that leaves the platform under the gravity it last received.
GravityPlatform_reset_keeps_gravity(pl) ==
    [pl EXCEPT !.y = pl.original_y, !.dy = 0, !.is_falling = FALSE]

\* GravityPlatform.reset
GravityPlatform_reset(pl) ==
    [pl EXCEPT !.y = pl.original_y, !.dy = 0, !.is_falling = FALSE,
               !.gravity_direction = 1]

\* platform.update(), dispatched on the platform's class.
Platform_update(pl) ==
    IF pl.type = "moving" THEN MovingPlatform_update(pl)
    ELSE IF pl.type = "gravity" THEN GravityPlatform_update(pl)
    ELSE pl

\* ----------------------------------------------------------- input handler

\* InputHandler.DEFAULT_BINDINGS, in the order the dictionary is written:
\* <<action, primary key, secondary key>> ("" where the binding has no secondary).
DEFAULT_BINDINGS ==
    << <<"MOVE_LEFT", "LEFT", "a">>, <<"MOVE_RIGHT", "RIGHT", "d">>,
       <<"JUMP", "SPACE", "w">>, <<"FLIP_GRAVITY", "UP", "f">>,
       <<"PAUSE", "ESCAPE", "p">>, <<"RESTART", "r", "">>,
       <<"QUIT", "q", "">>, <<"DEBUG_TOGGLE", "F3", "">> >>

\* InputHandler.__init__
InputHandler ==
    [held_actions |-> {}, pressed_this_frame |-> {}, released_this_frame |-> {}]

\* InputHandler._get_action_for_key: the first binding holding the key, "" for None.
RECURSIVE InputHandler_get_action_from(_, _)
InputHandler_get_action_from(key, i) ==
    IF i > Len(DEFAULT_BINDINGS) THEN ""
    ELSE IF key = DEFAULT_BINDINGS[i][2] \/ key = DEFAULT_BINDINGS[i][3]
         THEN DEFAULT_BINDINGS[i][1]
         ELSE InputHandler_get_action_from(key, i + 1)

\* InputHandler._get_action_for_key
InputHandler_get_action_for_key(key) == InputHandler_get_action_from(key, 1)

\* InputHandler.process_events: one event of the loop.
InputHandler_process_event(h, event) ==
    LET action == InputHandler_get_action_for_key(event.key)
    IN  IF event.type = "KEYDOWN"
        THEN IF action # ""
             THEN [h EXCEPT !.held_actions = @ \cup {action},
                            !.pressed_this_frame = @ \cup {action}]
             ELSE h
        ELSE IF event.type = "KEYUP"
        THEN IF action # "" /\ action \in h.held_actions
             THEN [h EXCEPT !.held_actions = @ \ {action},
                            !.released_this_frame = @ \cup {action}]
             ELSE h
        ELSE h

\* InputHandler.process_events: the loop from event i on.
RECURSIVE InputHandler_events_loop(_, _, _)
InputHandler_events_loop(h, events, i) ==
    IF i > Len(events) THEN h
    ELSE InputHandler_events_loop(InputHandler_process_event(h, events[i]), events, i + 1)

\* A process_events that does not forget the presses of the frame before.
InputHandler_process_events_keeps_pressed(h, events) ==
    InputHandler_events_loop([h EXCEPT !.released_this_frame = {}], events, 1)

\* InputHandler.process_events
InputHandler_process_events(h, events) ==
    InputHandler_events_loop(
        [h EXCEPT !.pressed_this_frame = {}, !.released_this_frame = {}], events, 1)

\* InputHandler.is_action_held
InputHandler_is_action_held(h, action) == action \in h.held_actions

\* InputHandler.is_action_pressed
InputHandler_is_action_pressed(h, action) == action \in h.pressed_this_frame

\* InputHandler.get_movement_direction
InputHandler_get_movement_direction(h) ==
    (IF InputHandler_is_action_held(h, "MOVE_LEFT") THEN -1 ELSE 0)
    + (IF InputHandler_is_action_held(h, "MOVE_RIGHT") THEN 1 ELSE 0)

\* InputHandler.reset
InputHandler_reset(h) ==
    [h EXCEPT !.held_actions = {}, !.pressed_this_frame = {}, !.released_this_frame = {}]

\* ------------------------------------------------------------------- level

\* Level.level_bounds of the modelled level: <<min_x, max_x, min_y, max_y>>, pixels.
level_bounds == <<0, 10, 0, 7>>

\* Level.player_spawn of the modelled level, pixels.
player_spawn == <<1, 2>>

\* The level a Level object holds: its platforms, enemies, hazards, camera,
\* bounds and spawn point.
Level(plats, enems, hazs) ==
    [platforms |-> plats, enemies |-> enems, hazards |-> hazs, camera_x |-> 0,
     level_bounds |-> level_bounds, player_spawn |-> player_spawn]

\* An update whose camera gives way to the right bound rather than to the left.
Level_update_right_first(lv, player_x) ==
    LET target_camera == player_x - Px(window_width \div 3)
        cam == Min(Max(Px(lv.level_bounds[1]), target_camera),
                   Px(lv.level_bounds[2] - window_width))
        plats == [i \in DOMAIN lv.platforms |-> Platform_update(lv.platforms[i])]
    IN  [lv EXCEPT !.camera_x = cam,
                   !.platforms = plats,
                   !.enemies = [i \in DOMAIN lv.enemies |->
                                   Enemy_update(lv.enemies[i], plats)]]

\* Level.update
Level_update(lv, player_x) ==
    LET target_camera == player_x - Px(window_width \div 3)
        cam == Max(Px(lv.level_bounds[1]),
                   Min(target_camera, Px(lv.level_bounds[2] - window_width)))
        plats == [i \in DOMAIN lv.platforms |-> Platform_update(lv.platforms[i])]
    IN  [lv EXCEPT !.camera_x = cam,
                   !.platforms = plats,
                   !.enemies = [i \in DOMAIN lv.enemies |->
                                   Enemy_update(lv.enemies[i], plats)]]

\* A broadcast that reaches the enemies only.
Level_set_gravity_for_enemies(lv, direction) ==
    [lv EXCEPT
       !.enemies = [i \in DOMAIN lv.enemies |->
                       Enemy_set_gravity(lv.enemies[i], direction)]]

\* Level.set_gravity_for_all
Level_set_gravity_for_all(lv, direction) ==
    [lv EXCEPT
       !.enemies = [i \in DOMAIN lv.enemies |->
                       Enemy_set_gravity(lv.enemies[i], direction)],
       !.platforms = [i \in DOMAIN lv.platforms |->
                         IF lv.platforms[i].type = "gravity"
                         THEN GravityPlatform_set_gravity(lv.platforms[i], direction)
                         ELSE lv.platforms[i]]]

\* A reset that also puts the enemies back under normal gravity, at rest.
Level_reset_with_enemies(lv) ==
    [lv EXCEPT
       !.camera_x = 0,
       !.enemies = [i \in DOMAIN lv.enemies |->
                       [lv.enemies[i] EXCEPT !.gravity_direction = 1, !.dy = 0]],
       !.platforms = [i \in DOMAIN lv.platforms |->
                         IF lv.platforms[i].type = "gravity"
                         THEN GravityPlatform_reset(lv.platforms[i])
                         ELSE lv.platforms[i]]]

\* Level.reset
Level_reset(lv) ==
    [lv EXCEPT
       !.camera_x = 0,
       !.platforms = [i \in DOMAIN lv.platforms |->
                         IF lv.platforms[i].type = "gravity"
                         THEN GravityPlatform_reset(lv.platforms[i])
                         ELSE lv.platforms[i]]]

\* A bounds test that counts a player exactly on a limit as out.
Level_is_player_out_of_bounds_inclusive(player_x, player_y, h) ==
    \/ player_y >= Px(level_bounds[4] + h)
    \/ player_y <= Px(level_bounds[3] - h)

\* Level.is_player_out_of_bounds
Level_is_player_out_of_bounds(player_x, player_y, h) ==
    \/ player_y > Px(level_bounds[4] + h)
    \/ player_y < Px(level_bounds[3] - h)

\* json.dump / json.load of a number: its decimal text, a sign and the digits.
RECURSIVE Digits(_)
Digits(n) == IF n < 10 THEN <<n>> ELSE Append(Digits(n \div 10), n % 10)

JsonNumber(n) == [negative |-> n < 0, digits |-> Digits(IF n < 0 THEN -n ELSE n)]

RECURSIVE FromDigits(_, _, _)
FromDigits(digits, i, n) ==
    IF i > Len(digits) THEN n ELSE FromDigits(digits, i + 1, 10 * n + digits[i])

JsonParse(t) == IF t.negative THEN -FromDigits(t.digits, 1, 0) ELSE FromDigits(t.digits, 1, 0)

\* LevelLoader.save_to_json: the record written for one platform.
LevelLoader_save_platform(pl) ==
    IF pl.type = "moving"
    THEN [x |-> JsonNumber(pl.x), y |-> JsonNumber(pl.y),
          width |-> JsonNumber(pl.width), height |-> JsonNumber(pl.height),
          type |-> "moving", end_x |-> JsonNumber(pl.end_x),
          end_y |-> JsonNumber(pl.end_y), speed |-> JsonNumber(pl.speed)]
    ELSE [x |-> JsonNumber(pl.x), y |-> JsonNumber(pl.y),
          width |-> JsonNumber(pl.width), height |-> JsonNumber(pl.height),
          type |-> IF pl.type = "gravity" THEN "gravity" ELSE "static"]

\* LevelLoader.save_to_json: the record written for one enemy ('x': enemy.start_x).
LevelLoader_save_enemy(e) ==
    [x |-> JsonNumber(e.start_x), y |-> JsonNumber(e.y),
     width |-> JsonNumber(e.width), height |-> JsonNumber(e.height),
     patrol_distance |-> JsonNumber(e.patrol_distance), speed |-> JsonNumber(e.speed)]

\* LevelLoader.save_to_json: the record written for one hazard.
LevelLoader_save_hazard(h) ==
    [x |-> JsonNumber(h.x), y |-> JsonNumber(h.y),
     width |-> JsonNumber(h.width), height |-> JsonNumber(h.height)]

\* LevelLoader.save_to_json: the data written to the file.
LevelLoader_save_to_json(lv) ==
    [bounds |-> [i \in DOMAIN lv.level_bounds |-> JsonNumber(lv.level_bounds[i])],
     spawn |-> [i \in DOMAIN lv.player_spawn |-> JsonNumber(lv.player_spawn[i])],
     platforms |-> [i \in DOMAIN lv.platforms |-> LevelLoader_save_platform(lv.platforms[i])],
     enemies |-> [i \in DOMAIN lv.enemies |-> LevelLoader_save_enemy(lv.enemies[i])],
     hazards |-> [i \in DOMAIN lv.hazards |-> LevelLoader_save_hazard(lv.hazards[i])]]

\* LevelLoader.load_from_json: the platform built from one record.
LevelLoader_load_platform(p) ==
    IF p.type = "moving"
    THEN MovingPlatform(JsonParse(p.x), JsonParse(p.y), JsonParse(p.width),
                        JsonParse(p.height), JsonParse(p.end_x), JsonParse(p.end_y),
                        JsonParse(p.speed))
    ELSE IF p.type = "gravity"
    THEN GravityPlatform(JsonParse(p.x), JsonParse(p.y), JsonParse(p.width),
                         JsonParse(p.height))
    ELSE Platform(JsonParse(p.x), JsonParse(p.y), JsonParse(p.width), JsonParse(p.height))

\* LevelLoader.load_from_json: the level built from the data of a file that has
\* every key.
LevelLoader_load_from_json(data) ==
    [Level([i \in DOMAIN data.platforms |-> LevelLoader_load_platform(data.platforms[i])],
           [i \in DOMAIN data.enemies |->
               LET e == data.enemies[i]
               IN  Enemy(JsonParse(e.x), JsonParse(e.y), JsonParse(e.width),
                         JsonParse(e.height), JsonParse(e.patrol_distance),
                         JsonParse(e.speed))],
           [i \in DOMAIN data.hazards |->
               LET h == data.hazards[i]
               IN  Hazard(JsonParse(h.x), JsonParse(h.y), JsonParse(h.width),
                          JsonParse(h.height))])
        EXCEPT !.level_bounds = [i \in DOMAIN data.bounds |-> JsonParse(data.bounds[i])],
               !.player_spawn = [i \in DOMAIN data.spawn |-> JsonParse(data.spawn[i])]]

\* Player.check_enemy_collision
Player_check_enemy_collision(p, enems) ==
    \E i \in DOMAIN enems : colliderect(Player_rect(p), Enemy_rect(enems[i]))

\* Player.check_hazard_collision
Player_check_hazard_collision(p, hazs) ==
    \E i \in DOMAIN hazs : colliderect(Player_rect(p), Hazard_rect(hazs[i]))

\* -------------------------------------------------------------------- game

\* Game.__init__ / Game.restart: self.lives = 3.
StartLives == 3

\* Game.update: the 10 of int(self.player.x / 10).
ScoreStep == 10

\* LevelLoader.create_demo_level, scaled down to the model's level bounds: a floor
\* that ends before the right bound, a ceiling, one moving platform, one
\* patrolling enemy and one hazard.
create_demo_level ==
    Level(<< Platform(Px(0), Px(5), 8, 2),
             Platform(Px(0), Px(0), 10, 1),
             MovingPlatform(Px(8), Px(5), 2, 1, Px(8), Px(3), 50) >>,
          << Enemy(Px(4), Px(3), 2, 2, Px(1), 2) >>,
          << Hazard(Px(7), Px(4), 1, 1) >>)

\* The fields of a Game object.
Game(st, lv, sc, rn, pl, lvl, ih) ==
    [state |-> st, lives |-> lv, score |-> sc, running |-> rn,
     player |-> pl, level |-> lvl, input_handler |-> ih]

\* Game._init_game_objects
Game_init_game_objects(g) ==
    [g EXCEPT !.level = create_demo_level,
              !.player = Player(Px(player_spawn[1]), Px(player_spawn[2])),
              !.input_handler = InputHandler]

\* A restart that leaves the game state as it finds it.
Game_restart_keeps_state(g) ==
    Game_init_game_objects([g EXCEPT !.lives = StartLives, !.score = 0])

\* Game.restart
Game_restart(g) ==
    Game_init_game_objects([g EXCEPT !.lives = StartLives, !.score = 0,
                                     !.state = "RUNNING"])

\* Event handling whose pause key resumes the game from any state but RUNNING.
Game_handle_events_resumes(g, events) ==
    IF \E i \in DOMAIN events : events[i].type = "QUIT"
    THEN [g EXCEPT !.running = FALSE]
    ELSE LET a == [g EXCEPT !.input_handler = InputHandler_process_events(@, events)]
             h == a.input_handler
             b == IF InputHandler_is_action_pressed(h, "PAUSE")
                  THEN IF a.state = "RUNNING" THEN [a EXCEPT !.state = "PAUSED"]
                       ELSE [a EXCEPT !.state = "RUNNING"]
                  ELSE a
         IN  IF InputHandler_is_action_pressed(h, "QUIT")
             THEN [a EXCEPT !.running = FALSE]
             ELSE IF InputHandler_is_action_pressed(h, "RESTART")
                  THEN Game_restart(b)
                  ELSE b

\* Game.handle_events, given what pygame.event.get() returned.  (The debug toggle
\* only changes what the renderer draws and is left out.)
Game_handle_events(g, events) ==
    IF \E i \in DOMAIN events : events[i].type = "QUIT"
    THEN [g EXCEPT !.running = FALSE]
    ELSE LET a == [g EXCEPT !.input_handler = InputHandler_process_events(@, events)]
             h == a.input_handler
             b == IF InputHandler_is_action_pressed(h, "PAUSE")
                  THEN IF a.state = "RUNNING" THEN [a EXCEPT !.state = "PAUSED"]
                       ELSE IF a.state = "PAUSED" THEN [a EXCEPT !.state = "RUNNING"]
                       ELSE a
                  ELSE a
         IN  IF InputHandler_is_action_pressed(h, "QUIT")
             THEN [a EXCEPT !.running = FALSE]
             ELSE IF InputHandler_is_action_pressed(h, "RESTART")
                  THEN Game_restart(b)
                  ELSE b

\* Input handling that does not look at the game state.
Game_handle_player_input_always(g) ==
    LET h == g.input_handler
        p1 == Player_move(g.player, InputHandler_get_movement_direction(h))
        p2 == IF InputHandler_is_action_pressed(h, "JUMP") THEN Player_jump(p1) ELSE p1
    IN  IF InputHandler_is_action_pressed(h, "FLIP_GRAVITY")
        THEN LET p3 == Player_flip_gravity(p2)
             IN  [g EXCEPT !.player = p3,
                           !.level = Level_set_gravity_for_all(@, p3.gravity_direction)]
        ELSE [g EXCEPT !.player = p2]

\* Game.handle_player_input
Game_handle_player_input(g) ==
    IF g.state # "RUNNING" THEN g
    ELSE LET h == g.input_handler
             direction == InputHandler_get_movement_direction(h)
             p1 == Player_move(g.player, direction)
             p2 == IF InputHandler_is_action_pressed(h, "JUMP") THEN Player_jump(p1) ELSE p1
         IN  IF InputHandler_is_action_pressed(h, "FLIP_GRAVITY")
             THEN LET p3 == Player_flip_gravity(p2)
                  IN  [g EXCEPT !.player = p3,
                                !.level = Level_set_gravity_for_all(@, p3.gravity_direction)]
             ELSE [g EXCEPT !.player = p2]

\* The three conditions Game._check_collisions tests, on game object g: the
\* player touches an enemy, touches a hazard, is out of bounds.
TouchesEnemy(g) == Player_check_enemy_collision(g.player, g.level.enemies)
TouchesHazard(g) == Player_check_hazard_collision(g.player, g.level.hazards)
OutOfBounds(g) == Level_is_player_out_of_bounds(g.player.x, g.player.y, player_height)

\* One of the three holds.
InContact(g) == TouchesEnemy(g) \/ TouchesHazard(g) \/ OutOfBounds(g)

\* A hit that sends the player and the level back even when it is the last one.
Game_player_hit_respawns(g) ==
    LET a == [g EXCEPT !.lives = @ - 1, !.player = Player_reset(@),
                       !.level = Level_reset(@)]
    IN  IF a.lives <= 0 THEN [a EXCEPT !.state = "GAME_OVER"] ELSE a

\* Game._player_hit
Game_player_hit(g) ==
    LET a == [g EXCEPT !.lives = @ - 1]
    IN  IF a.lives <= 0
        THEN [a EXCEPT !.state = "GAME_OVER"]
        ELSE [a EXCEPT !.player = Player_reset(@), !.level = Level_reset(@)]

\* Game._check_collisions
Game_check_collisions(g) ==
    LET a == IF Player_check_enemy_collision(g.player, g.level.enemies)
             THEN Game_player_hit(g) ELSE g
        b == IF Player_check_hazard_collision(a.player, a.level.hazards)
             THEN Game_player_hit(a) ELSE a
    IN  IF Level_is_player_out_of_bounds(b.player.x, b.player.y, player_height)
        THEN Game_player_hit(b) ELSE b

\* Game.update up to the collision checks: self.player.update(...), then
\* self.level.update(self.player.x).
Game_before_collisions(g) ==
    LET a == [g EXCEPT !.player = Player_update(@, g.level.platforms)]
    IN  [a EXCEPT !.level = Level_update(@, a.player.x)]

\* An update that checks the collisions where things stood before they moved.
Game_update_checks_first(g) ==
    IF g.state # "RUNNING" THEN g
    ELSE LET c == Game_check_collisions(g)
             b == Game_before_collisions(c)
         IN  [b EXCEPT !.score = Max(@, DivTrunc(b.player.x, ScoreStep * Scale))]

\* An update whose score follows the player, back as well as forth.
Game_update_tracks(g) ==
    IF g.state # "RUNNING" THEN g
    ELSE LET b == Game_before_collisions(g)
             c == Game_check_collisions(b)
         IN  [c EXCEPT !.score = DivTrunc(c.player.x, ScoreStep * Scale)]

\* Game.update
Game_update(g) ==
    IF g.state # "RUNNING" THEN g
    ELSE LET b == Game_before_collisions(g)
             c == Game_check_collisions(b)
         IN  [c EXCEPT !.score = Max(@, DivTrunc(c.player.x, ScoreStep * Scale))]

\* ------------------------------------------------------------------- state

VARIABLES
    state,          \* Game.state: "RUNNING", "PAUSED" or "GAME_OVER"
    lives,          \* Game.lives
    score,          \* Game.score
    running,        \* Game.running
    player,         \* the Player object
    level,          \* the Level object: platforms, enemies, hazards, camera_x
    input_handler,  \* the InputHandler object
    keys_down,      \* the keys physically down (the keyboard, outside the program)
    pc,             \* where Game.run stands: "events", "input", "update" or "done"
    call,           \* the last call made: its name, the index of the object it was
                    \* made on, its argument and result; pre: that object's
                    \* gravity_direction, ground (or falling) flag and dy before it;
                    \* hits: for Player.update and Enemy.update called alone, how
                    \* many platforms the box overlapped in the vertical pass, and
                    \* for Game.update in the game loop, how many lives it cost
                    \* (ret: whether the player already touched an enemy or a
                    \* hazard, or was out of bounds, when it was called);
                    \* hhits: for Player.update, how many in the horizontal pass
    leg             \* for each moving platform whose traverses are counted: the
                    \* updates it has had since it last stood at an endpoint

vars ==
    <<state, lives, score, running, player, level, input_handler, keys_down, pc, call,
      leg>>

\* The Game object the variables hold.
game == Game(state, lives, score, running, player, level, input_handler)

\* The variables take the fields of Game object g.
SetGame(g) ==
    /\ state' = g.state
    /\ lives' = g.lives
    /\ score' = g.score
    /\ running' = g.running
    /\ player' = g.player
    /\ level' = g.level
    /\ input_handler' = g.input_handler

\* What a call record keeps of an object as it was before the call.
Pre(obj, flag) == [gravity_direction |-> obj.gravity_direction, flag |-> flag, dy |-> obj.dy]

\* A record of a call.
Call(name, target, arg, ret, pre, hits) ==
    [name |-> name, target |-> target, arg |-> arg, ret |-> ret, pre |-> pre,
     hits |-> hits, hhits |-> 0]

\* The call record of a constructor.
Constructed ==
    Call("__init__", 0, 0, FALSE, [gravity_direction |-> 1, flag |-> FALSE, dy |-> 0], 0)

\* The call record of a call on the player (or on the game, which holds it).
PlayerCall(name, arg, ret) == Call(name, 0, arg, ret, Pre(player, player.on_ground), 0)

\* The call record of a call on enemy i.
EnemyCall(name, i, arg) ==
    Call(name, i, arg, FALSE, Pre(level.enemies[i], level.enemies[i].on_ground), 0)

\* The call record of a call on platform i.
PlatformCall(name, i, arg) ==
    Call(name, i, arg, FALSE, Pre(level.platforms[i], level.platforms[i].is_falling), 0)

\* The call record of a call on the level.
LevelCall(name, arg) == Call(name, 0, arg, FALSE, Pre(player, player.on_ground), 0)

\* The platforms (their indices) a box overlaps.
Overlapping(rect, plats) ==
    {i \in DOMAIN plats : colliderect(rect, Platform_rect(plats[i]))}

\* A position inside the explored window.
InWindow(x, y) ==
    /\ x >= -Px(WorldLo)
    /\ x <= Px(WorldX)
    /\ y >= -Px(WorldLo)
    /\ y <= Px(WorldY)

\* Every moving object of a level is inside the explored window.
LevelInWindow(lv) ==
    /\ \A i \in DOMAIN lv.platforms : InWindow(lv.platforms[i].x, lv.platforms[i].y)
    /\ \A i \in DOMAIN lv.enemies : InWindow(lv.enemies[i].x, lv.enemies[i].y)

\* A position within WorldLo pixels of the level bounds: the window the game
\* loop is explored in.
InBounds(x, y) ==
    /\ x >= Px(level_bounds[1] - WorldLo)
    /\ x <= Px(level_bounds[2] + WorldLo)
    /\ y >= Px(level_bounds[3] - WorldLo)
    /\ y <= Px(level_bounds[4] + WorldLo)

\* Every platform and enemy of a level is within that window.
LevelInBounds(lv) ==
    /\ \A i \in DOMAIN lv.platforms : InBounds(lv.platforms[i].x, lv.platforms[i].y)
    /\ \A i \in DOMAIN lv.enemies : InBounds(lv.enemies[i].x, lv.enemies[i].y)

\* The values the variables of the game loop hold while a unit specification
\* drives one object alone.
IdleGame ==
    /\ state = "RUNNING"
    /\ lives = StartLives
    /\ score = 0
    /\ running = TRUE
    /\ input_handler = InputHandler
    /\ keys_down = {}
    /\ pc = "unit"

\* The same, with no traverse counted.
Idle == IdleGame /\ leg = << >>

game_vars == <<state, lives, score, running, input_handler, keys_down, pc>>

loop_vars == <<game_vars, leg>>

\* ------------------------------------------- the Player object, call by call

\* The platform list the player is updated against: a slab, a step sunk into it
\* (two platforms that overlap) and a ceiling.
PlayerLayout ==
    << Platform(Px(0), Px(7), 7, 2), Platform(Px(3), Px(6), 2, 2),
       Platform(Px(0), Px(0), 7, 1) >>

\* Where the player is created, and where set_spawn may put the spawn point
\* (positions, in units: the second is not on a whole pixel).
SpawnPoints == { <<Px(1), Px(3)>>, <<Px(4) + 1, Px(2) + 1>> }

PlayerInit ==
    /\ Idle
    /\ \E sp \in SpawnPoints : player = Player(sp[1], sp[2])
    /\ level = Level(PlayerLayout, <<>>, <<>>)
    /\ call = Constructed

PMove(direction) ==
    /\ player' = Player_move(player, direction)
    /\ call' = PlayerCall("move", direction, FALSE)
    /\ UNCHANGED <<level, loop_vars>>

PJump ==
    /\ player' = Player_jump(player)
    /\ call' = PlayerCall("jump", 0, Player_jump_returns(player))
    /\ UNCHANGED <<level, loop_vars>>

PFlipGravity ==
    /\ player' = Player_flip_gravity(player)
    /\ call' = PlayerCall("flip_gravity", 0, FALSE)
    /\ UNCHANGED <<level, loop_vars>>

PApplyGravity ==
    /\ player' = Player_apply_gravity(player)
    /\ call' = PlayerCall("apply_gravity", 0, FALSE)
    /\ UNCHANGED <<level, loop_vars>>

PUpdate ==
    /\ player' = Player_update(player, level.platforms)
    /\ InWindow(player'.x, player'.y)
    /\ call' = [PlayerCall("update", 0, FALSE) EXCEPT
                   !.hits = Cardinality(Overlapping(
                       Player_rect(Player_before_vertical(player, level.platforms)),
                       level.platforms)),
                   !.hhits = Cardinality(Overlapping(
                       Player_rect(Player_before_horizontal(player)),
                       level.platforms))]
    /\ UNCHANGED <<level, loop_vars>>

PReset ==
    /\ player' = Player_reset(player)
    /\ call' = PlayerCall("reset", 0, FALSE)
    /\ UNCHANGED <<level, loop_vars>>

PSetSpawn ==
    /\ \E sp \in SpawnPoints : player' = Player_set_spawn(player, sp[1], sp[2])
    /\ call' = PlayerCall("set_spawn", 0, FALSE)
    /\ UNCHANGED <<level, loop_vars>>

PlayerNext ==
    \/ \E direction \in {-1, 0, 1} : PMove(direction)
    \/ PJump
    \/ PFlipGravity
    \/ PUpdate
    \/ PReset
    \/ PSetSpawn

PlayerSpec == PlayerInit /\ [][PlayerNext]_vars

\* --------------------- the Player object under a gravity of less than a pixel

\* Player(x, y, config) with a config whose gravity_strength is fine_gravity.
FinePlayer(x, y) ==
    [Player(x, y) EXCEPT !.config = [gravity_strength |-> fine_gravity]]

RestInit ==
    /\ Idle
    /\ \E sp \in SpawnPoints : player = FinePlayer(sp[1], sp[2])
    /\ level = Level(PlayerLayout, <<>>, <<>>)
    /\ call = Constructed

RestSpec == RestInit /\ [][PlayerNext]_vars

\* ----------------------------------- the Level and its objects, call by call

\* The level the calls are made on: a floor with a step in the enemy's path, a
\* ceiling, a moving platform and a gravity platform; one enemy with the
\* player's box; one hazard.
UnitLevel ==
    Level(<< Platform(Px(5), Px(6), 2, 1),
             Platform(Px(0), Px(7), 7, 2),
             Platform(Px(0), Px(0), 7, 1),
             MovingPlatform(Px(0), Px(3), 1, 1, Px(0), Px(5), 50),
             GravityPlatform(Px(6), Px(3), 1, 1) >>,
          << Enemy(Px(2), Px(4), player_width, player_height, 5, 3) >>,
          << Hazard(Px(3), Px(6), 1, 1) >>)

\* The player_x values Level.update is called with.
CameraTargets == {Px(1), Px(5), Px(9)}

LevelInit ==
    /\ Idle
    /\ player = Player(Px(player_spawn[1]), Px(player_spawn[2]))
    /\ level = UnitLevel
    /\ call = Constructed

LUpdate(player_x) ==
    /\ level' = Level_update(level, player_x)
    /\ LevelInWindow(level')
    /\ call' = LevelCall("Level.update", player_x)
    /\ UNCHANGED <<player, loop_vars>>

LSetGravityForAll(direction) ==
    /\ level' = Level_set_gravity_for_all(level, direction)
    /\ call' = LevelCall("Level.set_gravity_for_all", direction)
    /\ UNCHANGED <<player, loop_vars>>

LReset ==
    /\ level' = Level_reset(level)
    /\ call' = LevelCall("Level.reset", 0)
    /\ UNCHANGED <<player, loop_vars>>

LevelNext ==
    \/ \E player_x \in CameraTargets : LUpdate(player_x)
    \/ \E direction \in {-1, 1} : LSetGravityForAll(direction)
    \/ LReset

LevelSpec == LevelInit /\ [][LevelNext]_vars

\* ------------------------------------------- the Enemy object, call by call

\* The platforms the enemy is updated against (a step in its path, a floor, a
\* ceiling) and the enemy, which has the player's box.
EnemyLevel ==
    Level(<< Platform(Px(5), Px(6), 2, 1),
             Platform(Px(0), Px(7), 7, 2),
             Platform(Px(0), Px(0), 7, 1) >>,
          << Enemy(Px(2), Px(4), player_width, player_height, 6, 3) >>,
          << >>)

EnemyInit ==
    /\ Idle
    /\ player = Player(Px(player_spawn[1]), Px(player_spawn[2]))
    /\ level = EnemyLevel
    /\ call = Constructed

ESetGravity(i, direction) ==
    /\ level' = [level EXCEPT !.enemies[i] = Enemy_set_gravity(@, direction)]
    /\ call' = EnemyCall("Enemy.set_gravity", i, direction)
    /\ UNCHANGED <<player, loop_vars>>

EApplyGravity(i) ==
    /\ level' = [level EXCEPT !.enemies[i] = Enemy_apply_gravity(@)]
    /\ call' = EnemyCall("Enemy.apply_gravity", i, 0)
    /\ UNCHANGED <<player, loop_vars>>

EUpdate(i) ==
    /\ level' = [level EXCEPT !.enemies[i] = Enemy_update(@, level.platforms)]
    /\ LevelInWindow(level')
    /\ call' = [EnemyCall("Enemy.update", i, 0) EXCEPT !.hits =
                   Cardinality(Overlapping(
                       Enemy_rect(Enemy_before_collisions(level.enemies[i])),
                       level.platforms))]
    /\ UNCHANGED <<player, loop_vars>>

EnemyNext ==
    \/ \E i \in DOMAIN level.enemies, direction \in {-1, 1} : ESetGravity(i, direction)
    \/ \E i \in DOMAIN level.enemies : EApplyGravity(i)
    \/ \E i \in DOMAIN level.enemies : EUpdate(i)

EnemySpec == EnemyInit /\ [][EnemyNext]_vars

\* ------------------------------------- enemies of several patrols and speeds

\* The enemies followed: patrol_distance 0, less than a step, and more than a
\* step; speeds of one unit and of several (all in units).
PatrolEnemies ==
    { Enemy(Px(3), Px(4), player_width, player_height, patrol_distance, speed) :
          patrol_distance \in {0, 1, 4}, speed \in {1, 3} }

PatrolInit ==
    /\ Idle
    /\ player = Player(Px(player_spawn[1]), Px(player_spawn[2]))
    /\ \E e \in PatrolEnemies : level = Level(EnemyLevel.platforms, <<e>>, << >>)
    /\ call = Constructed

PatrolSpec == PatrolInit /\ [][EnemyNext]_vars

\* ------------------------------------------ two enemies kept being updated

\* A level with two enemies on the floor: one with a wide patrol and small
\* steps, one with large steps and a patrol_distance of 0 or of more than a step.
PatrolTickInit ==
    /\ Idle
    /\ player = Player(Px(player_spawn[1]), Px(player_spawn[2]))
    /\ \E patrol_distance \in {0, 4} :
          level = Level(EnemyLevel.platforms,
                        << Enemy(Px(3), Px(4), player_width, player_height, 2, 1),
                           Enemy(Px(3), Px(4), player_width, player_height,
                                 patrol_distance, 3) >>,
                        << >>)
    /\ call = Constructed

PatrolTickNext == \E i \in {1, 2} : EUpdate(i)

\* Game.run calls update once per frame, and while the game is RUNNING
\* Level.update runs Enemy.update of every enemy: the update of each enemy is
\* taken again and again.
PatrolTickSpec ==
    PatrolTickInit /\ [][PatrolTickNext]_vars
                   /\ WF_vars(EUpdate(1)) /\ WF_vars(EUpdate(2))

\* ------------------------------- apply_gravity of both actors, call by call

GravityInit ==
    /\ Idle
    /\ player = Player(Px(player_spawn[1]), Px(player_spawn[2]))
    /\ level = EnemyLevel
    /\ call = Constructed

GravityNext ==
    \/ PApplyGravity
    \/ PFlipGravity
    \/ \E i \in DOMAIN level.enemies : EApplyGravity(i)
    \/ \E i \in DOMAIN level.enemies, direction \in {-1, 1} : ESetGravity(i, direction)

GravitySpec == GravityInit /\ [][GravityNext]_vars

\* ------------------------------------- the platform objects, call by call

\* A moving platform and a gravity platform.
PlatformLevel ==
    Level(<< MovingPlatform(Px(0), Px(3), 1, 1, Px(2), Px(5), 30),
             GravityPlatform(Px(6), Px(4), 1, 1) >>,
          << >>, << >>)

PlatformInit ==
    /\ Idle
    /\ player = Player(Px(player_spawn[1]), Px(player_spawn[2]))
    /\ level = PlatformLevel
    /\ call = Constructed

MUpdate(i) ==
    /\ level.platforms[i].type = "moving"
    /\ level' = [level EXCEPT !.platforms[i] = MovingPlatform_update(@)]
    /\ call' = PlatformCall("MovingPlatform.update", i, 0)
    /\ leg' = IF i \in DOMAIN leg
              THEN [leg EXCEPT ![i] = IF level.platforms[i].progress \in {FZero, FOne}
                                      THEN 1 ELSE @ + 1]
              ELSE leg
    /\ UNCHANGED <<player, game_vars>>

GSetGravity(i, direction) ==
    /\ level.platforms[i].type = "gravity"
    /\ level' = [level EXCEPT !.platforms[i] = GravityPlatform_set_gravity(@, direction)]
    /\ call' = PlatformCall("GravityPlatform.set_gravity", i, direction)
    /\ UNCHANGED <<player, loop_vars>>

GUpdate(i) ==
    /\ level.platforms[i].type = "gravity"
    /\ level' = [level EXCEPT !.platforms[i] = GravityPlatform_update(@)]
    /\ LevelInWindow(level')
    /\ call' = PlatformCall("GravityPlatform.update", i, 0)
    /\ UNCHANGED <<player, loop_vars>>

GReset(i) ==
    /\ level.platforms[i].type = "gravity"
    /\ level' = [level EXCEPT !.platforms[i] = GravityPlatform_reset(@)]
    /\ call' = PlatformCall("GravityPlatform.reset", i, 0)
    /\ UNCHANGED <<player, loop_vars>>

PlatformNext ==
    \/ \E i \in DOMAIN level.platforms : MUpdate(i)
    \/ \E i \in DOMAIN level.platforms, direction \in {-1, 1} : GSetGravity(i, direction)
    \/ \E i \in DOMAIN level.platforms : GUpdate(i)
    \/ \E i \in DOMAIN level.platforms : GReset(i)

PlatformSpec == PlatformInit /\ [][PlatformNext]_vars

\* ------------------------------ moving platforms alone, traverses counted

\* Two platforms whose speeds divide 100: ten and four steps of progress make 1.
MovingLevel ==
    Level(<< MovingPlatform(Px(0), Px(1), 1, 1, Px(5), Px(1), 10),
             MovingPlatform(Px(0), Px(5), 1, 1, Px(0), Px(3), 25) >>,
          << >>, << >>)

MovingInit ==
    /\ IdleGame
    /\ player = Player(Px(player_spawn[1]), Px(player_spawn[2]))
    /\ level = MovingLevel
    /\ call = Constructed
    /\ leg = [i \in DOMAIN MovingLevel.platforms |-> 0]

MovingNext == \E i \in DOMAIN level.platforms : MUpdate(i)

MovingSpec == MovingInit /\ [][MovingNext]_vars

\* ------------------------------------------------------------ the game loop

\* Keys the player holds across frames, and keys tapped (pressed and released
\* within one frame).
HoldKeys == {"RIGHT"}

TapKeys == {"SPACE", "UP", "ESCAPE", "r", "q"}

Event(type, key) == [type |-> type, key |-> key]

\* What pygame.event.get() may return in one frame, given the keys that are down.
FrameEvents(down) ==
    {<<>>, <<Event("QUIT", "")>>}
    \cup {<<Event("KEYDOWN", k)>> : k \in HoldKeys \ down}
    \cup {<<Event("KEYUP", k)>> : k \in HoldKeys \cap down}
    \cup {<<Event("KEYDOWN", k), Event("KEYUP", k)>> : k \in TapKeys}

\* The keys down after the events of a frame.
RECURSIVE KeysAfter(_, _, _)
KeysAfter(down, events, i) ==
    IF i > Len(events) THEN down
    ELSE KeysAfter(IF events[i].type = "KEYDOWN" THEN down \cup {events[i].key}
                   ELSE IF events[i].type = "KEYUP" THEN down \ {events[i].key}
                   ELSE down, events, i + 1)

\* Game.__init__
Init ==
    /\ state = "RUNNING"
    /\ lives = StartLives
    /\ score = 0
    /\ running = TRUE
    /\ level = create_demo_level
    /\ player = Player(Px(player_spawn[1]), Px(player_spawn[2]))
    /\ input_handler = InputHandler
    /\ keys_down = {}
    /\ pc = "events"
    /\ call = Constructed
    /\ leg = << >>

\* Game.run: self.handle_events(); if not self.running: break
HandleEvents ==
    /\ pc = "events"
    /\ \E events \in FrameEvents(keys_down) :
          /\ SetGame(Game_handle_events(game, events))
          /\ keys_down' = KeysAfter(keys_down, events, 1)
    /\ pc' = IF running' THEN "input" ELSE "done"
    /\ call' = PlayerCall("handle_events", 0, FALSE)
    /\ UNCHANGED leg

\* Game.run: self.handle_player_input()
HandlePlayerInput ==
    /\ pc = "input"
    /\ SetGame(Game_handle_player_input(game))
    /\ pc' = "update"
    /\ call' = PlayerCall("handle_player_input", 0, FALSE)
    /\ UNCHANGED <<keys_down, leg>>

\* Game.run: self.update(), then render and the clock, which change nothing here.
Update ==
    /\ pc = "update"
    /\ SetGame(Game_update(game))
    /\ InBounds(player'.x, Px(level_bounds[3]))
    /\ LevelInBounds(level')
    /\ pc' = "events"
    /\ call' = [PlayerCall("update", 0, InContact(game)) EXCEPT !.hits = lives - lives']
    /\ UNCHANGED <<keys_down, leg>>

Next ==
    \/ HandleEvents
    \/ HandlePlayerInput
    \/ Update

Spec == Init /\ [][Next]_vars

\* ----------------------------------- the game loop with the action keys held

\* The keys of jump and gravity flip, which the player here may hold down across
\* frames as well as tap.
ActionKeys == {"SPACE", "UP"}

\* What pygame.event.get() may return in one frame, given the keys that are
\* down: nothing, an action key going down, one coming up, or a tap of an action
\* key or of the pause key.
ActionFrameEvents(down) ==
    {<<>>, <<Event("KEYDOWN", "ESCAPE"), Event("KEYUP", "ESCAPE")>>}
    \cup {<<Event("KEYDOWN", k)>> : k \in ActionKeys \ down}
    \cup {<<Event("KEYUP", k)>> : k \in ActionKeys \cap down}
    \cup {<<Event("KEYDOWN", k), Event("KEYUP", k)>> : k \in ActionKeys \ down}

\* Game.run: self.handle_events(); the call record keeps the events of the frame
\* (arg).
HandleActionEvents ==
    /\ pc = "events"
    /\ \E events \in ActionFrameEvents(keys_down) :
          /\ SetGame(Game_handle_events(game, events))
          /\ keys_down' = KeysAfter(keys_down, events, 1)
          /\ call' = PlayerCall("handle_events", events, FALSE)
    /\ pc' = IF running' THEN "input" ELSE "done"
    /\ UNCHANGED leg

InputNext ==
    \/ HandleActionEvents
    \/ HandlePlayerInput
    \/ Update

InputSpec == Init /\ [][InputNext]_vars

\* ------------------------------------------- the Game object, call by call

\* How far below zero lives is followed when _player_hit is called again and
\* again.
MaxOverdraft == 1

\* What pygame.event.get() returns in the frames fed to handle_events here: the
\* RIGHT key going down or up, a tap of the pause key or of the jump key, or
\* nothing.
UnitEvents(down) ==
    {<<>>, <<Event("KEYDOWN", "ESCAPE"), Event("KEYUP", "ESCAPE")>>,
     <<Event("KEYDOWN", "SPACE"), Event("KEYUP", "SPACE")>>}
    \cup {<<Event("KEYDOWN", k)>> : k \in HoldKeys \ down}
    \cup {<<Event("KEYUP", k)>> : k \in HoldKeys \cap down}

GameInit ==
    /\ state = "RUNNING"
    /\ lives = StartLives
    /\ score = 0
    /\ running = TRUE
    /\ level = create_demo_level
    /\ player = Player(Px(player_spawn[1]), Px(player_spawn[2]))
    /\ input_handler = InputHandler
    /\ keys_down = {}
    /\ pc = "unit"
    /\ call = Constructed
    /\ leg = << >>

GameHandleEvents ==
    /\ \E events \in UnitEvents(keys_down) :
          /\ SetGame(Game_handle_events(game, events))
          /\ keys_down' = KeysAfter(keys_down, events, 1)
    /\ call' = PlayerCall("Game.handle_events", 0, FALSE)
    /\ UNCHANGED <<pc, leg>>

GameHandlePlayerInput ==
    /\ SetGame(Game_handle_player_input(game))
    /\ call' = PlayerCall("Game.handle_player_input", 0, FALSE)
    /\ UNCHANGED <<keys_down, pc, leg>>

GameUpdate ==
    /\ SetGame(Game_update(game))
    /\ InBounds(player'.x, Px(level_bounds[3]))
    /\ LevelInBounds(level')
    /\ call' = PlayerCall("Game.update", 0, FALSE)
    /\ UNCHANGED <<keys_down, pc, leg>>

GamePlayerHit ==
    /\ lives > -MaxOverdraft
    /\ SetGame(Game_player_hit(game))
    /\ call' = PlayerCall("Game._player_hit", 0, FALSE)
    /\ UNCHANGED <<keys_down, pc, leg>>

\* restart(); the call record keeps the lives and the score before the call (arg)
\* and whether the game was paused or over (ret).
GameRestart ==
    /\ SetGame(Game_restart(game))
    /\ call' = PlayerCall("Game.restart", <<lives, score>>, state # "RUNNING")
    /\ UNCHANGED <<keys_down, pc, leg>>

GameNext ==
    \/ GameHandleEvents
    \/ GameHandlePlayerInput
    \/ GameUpdate
    \/ GamePlayerHit
    \/ GameRestart

GameSpec == GameInit /\ [][GameNext]_vars


\* ----------------------------------- Level.is_player_out_of_bounds, by itself

\* The arguments the test is called with: x left of, inside and right of the
\* level; y from beyond the upper limit to beyond the lower one; every height up
\* to the player's.
BoundsXs == {Px(level_bounds[1] - 1), Px(level_bounds[1] + 1), Px(level_bounds[2] + 1)}

BoundsYs ==
    (Px(level_bounds[3] - player_height) - 2) .. (Px(level_bounds[4] + player_height) + 2)

BoundsHeights == 1 .. player_height

BoundsInit ==
    /\ Idle
    /\ player = Player(Px(player_spawn[1]), Px(player_spawn[2]))
    /\ level = create_demo_level
    /\ call = Constructed

\* level.is_player_out_of_bounds(player_x, player_y, h); the call record keeps
\* the arguments (arg) and the result (ret).
IsPlayerOutOfBounds(player_x, player_y, h) ==
    /\ call' = Call("Level.is_player_out_of_bounds", 0, <<player_x, player_y, h>>,
                    Level_is_player_out_of_bounds(player_x, player_y, h),
                    Pre(player, player.on_ground), 0)
    /\ UNCHANGED <<player, level, loop_vars>>

BoundsNext ==
    \E player_x \in BoundsXs, player_y \in BoundsYs, h \in BoundsHeights :
        IsPlayerOutOfBounds(player_x, player_y, h)

BoundsSpec == BoundsInit /\ [][BoundsNext]_vars

\* --------------------------------------- the camera of levels of any width

\* A level with one moving platform, as loaded from a file with the given bounds.
CameraLevel(bounds) ==
    [Level(<< MovingPlatform(Px(1), Px(1), 1, 1, Px(1), Px(3), 50) >>, << >>, << >>)
        EXCEPT !.level_bounds = bounds]

\* The bounds of the levels: starting at 0 or further right; narrower than the
\* window, exactly as wide, and wider.
CameraBounds ==
    {<<min_x, min_x + width, 0, 7>> :
        min_x \in {0, 2}, width \in {window_width - 2, window_width, window_width + 3}}

\* The player_x values Level.update is called with, in units: from left of every
\* level to right of every level.
CameraXs == -Px(1) .. Px(window_width + 6)

CameraInit ==
    /\ Idle
    /\ player = Player(Px(player_spawn[1]), Px(player_spawn[2]))
    /\ level \in {CameraLevel(b) : b \in CameraBounds}
    /\ call = Constructed

CameraNext == \E player_x \in CameraXs : LUpdate(player_x)

CameraSpec == CameraInit /\ [][CameraNext]_vars

\* ------------------------------------- the InputHandler object, call by call

\* The keys pressed and released here: both keys of MOVE_RIGHT and of JUMP.
BoundKeys == {"RIGHT", "d", "SPACE", "w"}

\* What one frame may bring, given the keys that are down: one key going down
\* or coming up, or two such events one after the other.
KeyChanges(down) ==
    {Event("KEYDOWN", k) : k \in BoundKeys \ down}
    \cup {Event("KEYUP", k) : k \in BoundKeys \cap down}

KeyFrames(down) ==
    {<<e>> : e \in KeyChanges(down)}
    \cup UNION {{<<e, f>> : f \in KeyChanges(KeysAfter(down, <<e>>, 1))} :
                    e \in KeyChanges(down)}

KeysInit ==
    /\ Idle
    /\ player = Player(Px(player_spawn[1]), Px(player_spawn[2]))
    /\ level = Level(<< >>, << >>, << >>)
    /\ call = Constructed

\* input_handler.process_events(events); the call record keeps the events (arg).
ProcessEvents ==
    /\ \E events \in KeyFrames(keys_down) :
          /\ input_handler' = InputHandler_process_events(input_handler, events)
          /\ keys_down' = KeysAfter(keys_down, events, 1)
          /\ call' = PlayerCall("InputHandler.process_events", events, FALSE)
    /\ UNCHANGED <<state, lives, score, running, pc, player, level, leg>>

KeysNext == ProcessEvents

KeysSpec == KeysInit /\ [][KeysNext]_vars

\* --------------------------------------------- saving and loading a level

\* A level with one platform of each kind, an enemy on the floor and a hazard.
SavedLevel ==
    Level(<< Platform(Px(0), Px(7), 7, 2),
             MovingPlatform(Px(5), Px(2), 1, 1, Px(5), Px(4), 50),
             GravityPlatform(Px(6), Px(3), 1, 1) >>,
          << Enemy(Px(2), Px(5), 1, 2, 4, 2) >>,
          << Hazard(Px(3), Px(6), 1, 1) >>)

RoundTripInit ==
    /\ Idle
    /\ player = Player(Px(player_spawn[1]), Px(player_spawn[2]))
    /\ level = SavedLevel
    /\ call = Constructed

\* The level has not been through a file yet.  (A level is followed up to its
\* first save and load: each load starts the moving objects afresh from where
\* they stood, so that levels loaded again and again never stop being new.)
NotLoadedYet == call.name # "LevelLoader.save_to_json; load_from_json"

\* LevelLoader.save_to_json(level, path), then level = LevelLoader.load_from_json(path).
SaveAndLoad ==
    /\ NotLoadedYet
    /\ level' = LevelLoader_load_from_json(LevelLoader_save_to_json(level))
    /\ call' = LevelCall("LevelLoader.save_to_json; load_from_json", 0)
    /\ UNCHANGED <<player, loop_vars>>

RoundTripNext ==
    \/ NotLoadedYet /\ LUpdate(Px(player_spawn[1]))
    \/ NotLoadedYet /\ \E direction \in {-1, 1} : LSetGravityForAll(direction)
    \/ SaveAndLoad

RoundTripSpec == RoundTripInit /\ [][RoundTripNext]_vars

\* =================================================================== claims

\* The least and the greatest of a non-empty set of platform indices.
First(S) == CHOOSE i \in S : \A j \in S : i <= j
Last(S) == CHOOSE i \in S : \A j \in S : j <= i

\* ---- C1
\* Vertical landing.  In Player.update, when after the vertical move the player's
\* box overlaps a platform while the player moves along its own gravity
\* (gravity +1 and dy > 0, or gravity -1 and dy < 0), the player returns clamped
\* to the near surface of the platform (of the first one in list order it
\* overlaps): y = top - height under gravity +1, y = bottom under gravity -1,
\* with dy = 0 and on_ground true.
C1_VerticalLanding ==
    [][call'.name = "update" =>
         LET m == Player_before_vertical(player, level.platforms)
             hit == Overlapping(Player_rect(m), level.platforms)
             r == Platform_rect(level.platforms[First(hit)])
         IN  (hit # {} /\ m.dy * m.gravity_direction > 0) =>
                 /\ player'.y = IF m.gravity_direction > 0
                                THEN Px(r.top - player_height) ELSE Px(r.bottom)
                 /\ player'.dy = 0
                 /\ player'.on_ground]_vars

\* A landing on a ceiling: update has just returned under inverted gravity with the
\* player in contact, its box having overlapped a platform.
C1_Witness ==
    /\ call.name = "update" /\ call.hits > 0
    /\ player.gravity_direction = -1 /\ player.on_ground
    /\ \E i \in DOMAIN level.platforms :
           player.y = Px(Platform_rect(level.platforms[i]).bottom)

\* ---- C2
\* As the claim is worded: when the box overlaps two or more platforms after the
\* vertical move (and moves vertically), the final y is the one dictated by the
\* LAST overlapping platform of the list.
C2_LastWriteWins ==
    [][call'.name = "update" =>
         LET m == Player_before_vertical(player, level.platforms)
             hit == Overlapping(Player_rect(m), level.platforms)
             r == Platform_rect(level.platforms[Last(hit)])
         IN  (Cardinality(hit) >= 2 /\ m.dy # 0) =>
                 player'.y = IF m.dy > 0 THEN Px(r.top - player_height)
                             ELSE Px(r.bottom)]_vars

\* As the code has it: the FIRST overlapping platform of the list dictates the
\* final y; its correction zeroes dy, so the later overlapping platforms make no
\* correction.  With dy = 0 after the vertical move no platform corrects anything.
C2_FirstWriteWins ==
    [][call'.name = "update" =>
         LET m == Player_before_vertical(player, level.platforms)
             hit == Overlapping(Player_rect(m), level.platforms)
             r == Platform_rect(level.platforms[First(hit)])
         IN  Cardinality(hit) >= 2 =>
                 /\ m.dy # 0 => /\ player'.y = IF m.dy > 0
                                               THEN Px(r.top - player_height)
                                               ELSE Px(r.bottom)
                                /\ player'.dy = 0
                 /\ m.dy = 0 => player'.y = m.y]_vars

\* update has returned from a vertical pass in which the box overlapped two
\* platforms whose corrections differ, and stands where the first one put it.
C2_Witness ==
    /\ call.name = "update" /\ call.hits >= 2 /\ player.on_ground
    /\ \E i, j \in DOMAIN level.platforms :
           /\ i < j
           /\ Platform_rect(level.platforms[i]).top # Platform_rect(level.platforms[j]).top
           /\ player.y = Px(Platform_rect(level.platforms[i]).top - player_height)
           /\ colliderect(Player_rect(player), Platform_rect(level.platforms[j]))

\* ---- C3
\* A player holding an enemy's position, signed horizontal velocity, vertical
\* velocity, gravity direction and ground contact.
AsPlayer(e) ==
    [Player(e.x, e.y) EXCEPT !.dx = e.dx * e.direction, !.dy = e.dy,
                             !.gravity_direction = e.gravity_direction,
                             !.on_ground = e.on_ground]

\* Whether an enemy and a player agree on position, vertical velocity and contact.
SameOutcome(e, p) ==
    e.x = p.x /\ e.y = p.y /\ e.dy = p.dy /\ e.on_ground = p.on_ground

\* As the claim is worded: for an enemy with the player's box, the collision step
\* of Enemy.update yields the position, velocity and on_ground of the Player's
\* horizontal-then-vertical resolution of the same move.
C3_SameAsPlayerResolution ==
    [][call'.name = "Enemy.update" =>
         LET e == level.enemies[call'.target]
             a == AsPlayer(Enemy_patrol(Enemy_apply_gravity(e)))
             b == Player_check_horizontal_collisions([a EXCEPT !.x = @ + a.dx],
                                                     level.platforms)
             c == Player_check_vertical_collisions([b EXCEPT !.y = @ + b.dy],
                                                   level.platforms)
         IN  (e.width = player_width /\ e.height = player_height) =>
                 SameOutcome(level'.enemies[call'.target], c)]_vars

\* As the code has it: the collision step of Enemy.update is the Player's vertical
\* pass alone.  For an enemy with the player's box it yields the y, dy and on_ground
\* of Player._check_vertical_collisions on the same data, and leaves x where the
\* move put it: an enemy that moves horizontally into a platform is not clamped to
\* its edge.
C3_SameAsPlayerVerticalPass ==
    [][call'.name = "Enemy.update" =>
         LET e == level.enemies[call'.target]
             m == Enemy_before_collisions(e)
             c == Player_check_vertical_collisions(AsPlayer(m), level.platforms)
         IN  (e.width = player_width /\ e.height = player_height) =>
                 /\ SameOutcome(level'.enemies[call'.target], c)
                 /\ level'.enemies[call'.target].x = m.x]_vars

\* An enemy that stood on the floor has walked into the side of a step: its box
\* overlapped the step and the floor, and update lifted it onto a platform where
\* its box has the platform under it, x uncorrected.
C3_Witness ==
    /\ call.name = "Enemy.update" /\ call.hits >= 2
    /\ call.pre.flag /\ call.pre.gravity_direction = 1
    /\ LET e == level.enemies[call.target]
       IN  /\ e.on_ground
           /\ \E i \in DOMAIN level.platforms :
                  LET r == Platform_rect(level.platforms[i])
                  IN  /\ e.y = Px(r.top - e.height)
                      /\ Enemy_rect(e).left < r.right
                      /\ r.left < Enemy_rect(e).right
                      /\ Enemy_rect(e).left >= r.left

\* ---- C4
\* As the claim is worded: Enemy.set_gravity with the enemy's current direction
\* changes nothing of the enemy.
C4_SameDirectionNoOp ==
    [][(call'.name = "Enemy.set_gravity"
           /\ call'.arg = level.enemies[call'.target].gravity_direction) =>
         level'.enemies[call'.target] = level.enemies[call'.target]]_vars

\* As the code has it: Enemy.set_gravity assigns the direction and clears on_ground
\* unconditionally, also when the direction is the current one, and changes no
\* other field.
C4_SetGravityUnconditional ==
    [][call'.name = "Enemy.set_gravity" =>
         level'.enemies[call'.target] =
             [level.enemies[call'.target] EXCEPT !.gravity_direction = call'.arg,
                                                 !.on_ground = FALSE]]_vars

\* set_gravity was called with the current direction on an enemy that stood on the
\* ground, and the enemy has lost its ground contact.
C4_Witness ==
    /\ call.name = "Enemy.set_gravity"
    /\ call.arg = call.pre.gravity_direction /\ call.pre.flag
    /\ level.enemies[call.target].gravity_direction = call.arg
    /\ ~level.enemies[call.target].on_ground

\* ---- C5
\* Gravity lockstep, as the claim is worded: after every completed tick
\* (handle_player_input followed by update) every enemy's and every
\* GravityPlatform's gravity_direction equals the player's.
C5_GravityLockstep ==
    (pc = "events" /\ call.name = "update") =>
        /\ \A i \in DOMAIN level.enemies :
               level.enemies[i].gravity_direction = player.gravity_direction
        /\ \A i \in DOMAIN level.platforms :
               level.platforms[i].type = "gravity" =>
                   level.platforms[i].gravity_direction = player.gravity_direction

\* ---- C6
\* Gravity broadcast: after Level.set_gravity_for_all(d) every enemy and every
\* GravityPlatform has gravity_direction = d, while the static platforms, the moving
\* platforms, the hazards and the camera are unchanged.
C6_GravityBroadcast ==
    [][call'.name = "Level.set_gravity_for_all" =>
         /\ call'.arg \in {-1, 1}
         /\ DOMAIN level'.enemies = DOMAIN level.enemies
         /\ DOMAIN level'.platforms = DOMAIN level.platforms
         /\ \A i \in DOMAIN level.enemies :
                level'.enemies[i].gravity_direction = call'.arg
         /\ \A i \in DOMAIN level.platforms :
                IF level.platforms[i].type = "gravity"
                THEN level'.platforms[i].gravity_direction = call'.arg
                ELSE level'.platforms[i] = level.platforms[i]
         /\ level'.hazards = level.hazards
         /\ level'.camera_x = level.camera_x]_vars

\* A broadcast of inverted gravity into a level whose camera has scrolled and whose
\* moving platform is under way: enemies and gravity platforms are inverted.
C6_Witness ==
    /\ call.name = "Level.set_gravity_for_all" /\ call.arg = -1
    /\ level.camera_x # 0
    /\ \E i \in DOMAIN level.platforms :
           level.platforms[i].type = "moving" /\ level.platforms[i].progress # FZero
    /\ \E i \in DOMAIN level.platforms :
           /\ level.platforms[i].type = "gravity"
           /\ level.platforms[i].gravity_direction = -1
           /\ level.platforms[i].is_falling
    /\ level.enemies # << >>
    /\ \A i \in DOMAIN level.enemies : level.enemies[i].gravity_direction = -1

\* ---- C7
\* GravityPlatform.set_gravity(d): with d the platform's current direction nothing
\* changes (is_falling keeps its value); with a different d, gravity_direction
\* becomes d and is_falling true, y and dy (and everything else) unchanged.
C7_PlatformSetGravity ==
    [][call'.name = "GravityPlatform.set_gravity" =>
         LET pl == level.platforms[call'.target]
             d == call'.arg
         IN  level'.platforms[call'.target] =
                 IF d = pl.gravity_direction THEN pl
                 ELSE [pl EXCEPT !.gravity_direction = d, !.is_falling = TRUE]]_vars

\* set_gravity has reversed a platform that was falling: it keeps the speed and the
\* displacement it had accumulated.
C7_Witness ==
    /\ call.name = "GravityPlatform.set_gravity"
    /\ call.arg # call.pre.gravity_direction /\ call.pre.flag
    /\ LET pl == level.platforms[call.target]
       IN  /\ pl.gravity_direction = call.arg /\ pl.is_falling
           /\ pl.dy = call.pre.dy /\ pl.dy # 0 /\ pl.y # pl.original_y

\* ---- C8
\* dy after apply_gravity, from dy and the gravity direction before it.
AfterGravity(dy, g) ==
    LET v == dy + gravity_strength * g
    IN  IF g > 0 THEN (IF v > max_fall_speed THEN max_fall_speed ELSE v)
        ELSE (IF v < -max_fall_speed THEN -max_fall_speed ELSE v)

\* apply_gravity of the Player and of the Enemy sets dy to
\* dy + gravity_strength * gravity_direction clamped to at most max_fall_speed
\* under gravity +1 and to at least -max_fall_speed under gravity -1, and changes
\* nothing else; so a dy that already equals the signed bound stays what it is.
C8_ApplyGravity ==
    [][/\ call'.name = "apply_gravity" =>
            /\ player' = [player EXCEPT
                             !.dy = AfterGravity(player.dy, player.gravity_direction)]
            /\ player.dy = player.gravity_direction * max_fall_speed =>
                   player'.dy = player.dy
       /\ call'.name = "Enemy.apply_gravity" =>
            LET e == level.enemies[call'.target]
            IN  /\ level'.enemies[call'.target] =
                       [e EXCEPT !.dy = AfterGravity(e.dy, e.gravity_direction)]
                /\ e.dy = e.gravity_direction * max_fall_speed =>
                       level'.enemies[call'.target].dy = e.dy]_vars

\* apply_gravity was called on a player already falling upward at the full speed.
C8_Witness ==
    /\ call.name = "apply_gravity"
    /\ call.pre.gravity_direction = -1 /\ call.pre.dy = -max_fall_speed
    /\ player.gravity_direction = -1 /\ player.dy = -max_fall_speed

\* ---- C9
\* Player.flip_gravity is an unconditional toggle: it multiplies gravity_direction
\* by -1 whatever its value, sets on_ground to false and changes nothing else;
\* so a flip_gravity that follows a flip_gravity restores the gravity_direction
\* there was before the first.
C9_FlipToggle ==
    [][call'.name = "flip_gravity" =>
         /\ player' = [player EXCEPT !.gravity_direction = -player.gravity_direction,
                                     !.on_ground = FALSE]
         /\ player'.gravity_direction \in {-1, 1}
         /\ call.name = "flip_gravity" =>
                player'.gravity_direction = call.pre.gravity_direction]_vars

\* A flip back to normal gravity made while standing on a ceiling.
C9_Witness ==
    /\ call.name = "flip_gravity"
    /\ call.pre.gravity_direction = -1 /\ call.pre.flag
    /\ player.gravity_direction = 1 /\ ~player.on_ground

\* ---- C10
\* Player.jump: on the ground it sets dy = -player_jump_force * gravity_direction,
\* clears on_ground and returns True, changing nothing else; off the ground it
\* returns False and leaves the whole player unchanged.
C10_Jump ==
    [][call'.name = "jump" =>
         IF player.on_ground
         THEN /\ call'.ret
              /\ player' = [player EXCEPT
                               !.dy = -player_jump_force * player.gravity_direction,
                               !.on_ground = FALSE]
         ELSE /\ ~call'.ret
              /\ player' = player]_vars

\* A jump off a ceiling: it fired under inverted gravity and pushes downward.
C10_Witness ==
    /\ call.name = "jump" /\ call.ret
    /\ call.pre.gravity_direction = -1 /\ call.pre.flag
    /\ player.dy = player_jump_force /\ ~player.on_ground

\* ---- C11
\* No double jump.  on_ground becomes (or is again) true only in an update whose
\* vertical pass landed the player, and otherwise only survives move and
\* set_spawn; jump returns True exactly when on_ground is true and leaves it
\* false, and flip_gravity leaves it false.  So between two jumps that return
\* True there is an update that landed the player, and a jump that directly
\* follows a jump or a flip_gravity returns False.
C11_NoDoubleJump ==
    [][/\ player'.on_ground =>
            \/ call'.name = "update" /\ call'.hits > 0
                 /\ player'.dy = 0
            \/ player.on_ground /\ call'.name \in {"move", "set_spawn"}
       /\ call'.name = "jump" => (call'.ret = player.on_ground) /\ ~player'.on_ground
       /\ call'.name = "flip_gravity" => ~player'.on_ground
       /\ (call'.name = "jump" /\ call.name \in {"jump", "flip_gravity"}) =>
              ~call'.ret]_vars

\* A jump was refused in the air: the player was leaving the ground at the jump
\* speed, as a successful jump left it, and nothing of it changed.
C11_Witness ==
    /\ call.name = "jump" /\ ~call.ret /\ ~call.pre.flag
    /\ call.pre.dy = -player_jump_force * player.gravity_direction
    /\ player.dy = call.pre.dy /\ ~player.on_ground

\* ---- C12
\* Horizontal resolution.  In the horizontal pass of Player.update the platforms
\* that overlap the box after x += dx (the box at the y before the vertical move)
\* each write x in list order: x = left - width when dx > 0, x = right when
\* dx < 0, nothing when dx = 0; so x ends as the last of them wrote it.  dx is
\* never changed.
C12_HorizontalResolution ==
    [][call'.name = "update" =>
         LET a == Player_apply_gravity(player)
             box == Rect(a.x + a.dx, player.y, player_width, player_height)
             hit == Overlapping(box, level.platforms)
             r == Platform_rect(level.platforms[Last(hit)])
         IN  /\ player'.dx = player.dx
             /\ player'.x = IF hit = {} \/ player.dx = 0 THEN player.x + player.dx
                            ELSE IF player.dx > 0 THEN Px(r.left - player_width)
                            ELSE Px(r.right)]_vars

\* The player walked left into a platform: update has put its left edge on the
\* platform's right edge and kept dx.
C12_Witness ==
    /\ call.name = "update" /\ call.hhits > 0
    /\ player.dx < 0
    /\ \E i \in DOMAIN level.platforms :
           player.x = Px(Platform_rect(level.platforms[i]).right)

\* ---- C13
\* Ceiling bump.  In the vertical pass, when the box overlaps a single platform
\* while the player moves against its own gravity (gravity +1 and dy < 0, or
\* gravity -1 and dy > 0), the leading edge is clamped to the platform
\* (y = bottom, respectively y = top - height), dy becomes 0 and on_ground is
\* false on return.
C13_CeilingBump ==
    [][call'.name = "update" =>
         LET m == Player_before_vertical(player, level.platforms)
             hit == Overlapping(Player_rect(m), level.platforms)
             r == Platform_rect(level.platforms[First(hit)])
         IN  (Cardinality(hit) = 1 /\ m.dy * m.gravity_direction < 0) =>
                 /\ player'.y = IF m.gravity_direction > 0
                                THEN Px(r.bottom) ELSE Px(r.top - player_height)
                 /\ player'.dy = 0
                 /\ ~player'.on_ground]_vars

\* The player, rising under normal gravity, has bumped into the underside of a
\* platform: it hangs there with dy = 0 and no ground contact.
C13_Witness ==
    /\ call.name = "update" /\ call.hits = 1
    /\ call.pre.gravity_direction = 1 /\ call.pre.dy < -gravity_strength
    /\ player.dy = 0 /\ ~player.on_ground
    /\ \E i \in DOMAIN level.platforms :
           player.y = Px(Platform_rect(level.platforms[i]).bottom)

\* ---- C14
\* Player.update is the sequence apply_gravity; x += dx; horizontal resolution;
\* y += dy; vertical resolution.  The horizontal pass sees the box at the y of
\* before the move, the vertical pass sees it at the x the horizontal pass left.
C14_UpdateOrder ==
    [][call'.name = "update" =>
         LET a == Player_apply_gravity(player)
             b == [a EXCEPT !.x = @ + a.dx]
             c == Player_check_horizontal_collisions(b, level.platforms)
             d == [c EXCEPT !.y = @ + c.dy]
             e == Player_check_vertical_collisions(d, level.platforms)
         IN  /\ player' = e
             /\ b.y = player.y /\ d.x = c.x
             /\ call'.hhits = Cardinality(Overlapping(
                    Rect(b.x, player.y, player_width, player_height), level.platforms))
             /\ call'.hits = Cardinality(Overlapping(
                    Rect(c.x, d.y, player_width, player_height), level.platforms))]_vars

\* An update in which both passes acted: the horizontal pass moved the player out
\* of a platform it walked into, and the vertical pass then landed it.
C14_Witness ==
    /\ call.name = "update" /\ call.hhits > 0 /\ call.hits > 0
    /\ player.dx # 0 /\ player.on_ground
    /\ \E i \in DOMAIN level.platforms :
           \/ player.x = Px(Platform_rect(level.platforms[i]).right)
           \/ player.x = Px(Platform_rect(level.platforms[i]).left - player_width)

\* ---- C15
\* Player.reset, from any state, puts (x, y) on the spawn point, sets dx = dy = 0,
\* gravity_direction = +1 and on_ground = false, and leaves facing_right,
\* is_moving and the spawn point unchanged; the spawn point changes only
\* through set_spawn.
C15_Reset ==
    [][/\ call'.name = "reset" =>
            /\ player'.x = player.spawn_x /\ player'.y = player.spawn_y
            /\ player'.dx = 0 /\ player'.dy = 0
            /\ player'.gravity_direction = 1 /\ ~player'.on_ground
            /\ player'.facing_right = player.facing_right
            /\ player'.is_moving = player.is_moving
            /\ player'.spawn_x = player.spawn_x /\ player'.spawn_y = player.spawn_y
       /\ (player'.spawn_x # player.spawn_x \/ player'.spawn_y # player.spawn_y) =>
              call'.name = "set_spawn"]_vars

\* A reset of a player that was walking left on a ceiling: it is back on its spawn
\* point under normal gravity, still facing left and still flagged as moving.
C15_Witness ==
    /\ call.name = "reset"
    /\ call.pre.gravity_direction = -1 /\ call.pre.flag
    /\ player.x = player.spawn_x /\ player.y = player.spawn_y
    /\ player.dx = 0 /\ player.dy = 0 /\ player.gravity_direction = 1
    /\ player.is_moving /\ ~player.facing_right

\* ---- C16
\* Enemy patrol reversal.  At each Enemy.update, before x is integrated, the
\* direction becomes -1 if x - start_x >= patrol_distance, +1 if
\* x - start_x <= -patrol_distance (both boundaries inclusive), and is otherwise
\* unchanged; the move of that same tick is x += speed * direction with the
\* updated direction, and direction is always -1 or +1.
C16_PatrolReversal ==
    [][/\ \A i \in DOMAIN level'.enemies : level'.enemies[i].direction \in {-1, 1}
       /\ call'.name = "Enemy.update" =>
            LET e == level.enemies[call'.target]
                d == e.x - e.start_x
                turned == IF d >= e.patrol_distance THEN -1
                          ELSE IF d <= -e.patrol_distance THEN 1
                          ELSE e.direction
            IN  /\ level'.enemies[call'.target].direction = turned
                /\ level'.enemies[call'.target].x = e.x + e.speed * turned]_vars

\* An enemy that stood exactly patrol_distance left of its start has turned right
\* and made its first step back in the same update.
C16_Witness ==
    /\ call.name = "Enemy.update"
    /\ LET e == level.enemies[call.target]
       IN  /\ e.direction = 1 /\ e.patrol_distance > 0 /\ e.speed > 0
           /\ e.x - e.speed - e.start_x = -e.patrol_distance

\* ---- C17
\* MovingPlatform bounce.  In every state 0 <= progress <= 1 and direction is -1
\* or +1, and (x, y) is the interpolation between the start and the end point by
\* progress; an update that brings progress to 1 or beyond clamps it to 1 and
\* sets direction to -1, one that brings it to 0 or below clamps it to 0 and
\* sets direction to +1, and any other update keeps the direction and the sum.
C17_MovingBounce ==
    [][/\ \A i \in DOMAIN level'.platforms :
            LET pl == level'.platforms[i]
            IN  pl.type = "moving" =>
                    /\ \A k \in 1..Limbs : pl.progress[k] \in 0..(LimbBase - 1)
                    /\ ~FLess(FOne, pl.progress)
                    /\ pl.direction \in {-1, 1}
                    /\ pl.x = Interpolate(pl.start_x, pl.end_x, pl.progress)
                    /\ pl.y = Interpolate(pl.start_y, pl.end_y, pl.progress)
       /\ call'.name = "MovingPlatform.update" =>
            LET pl == level.platforms[call'.target]
                after == level'.platforms[call'.target]
                step == FRound(FTimes(Hundredth, pl.speed))
                sum == FRound(FSum(pl.progress, step))
            IN  IF pl.direction > 0
                THEN IF ~FLess(sum, FOne)
                     THEN after.progress = FOne /\ after.direction = -1
                     ELSE after.progress = sum /\ after.direction = 1
                ELSE IF ~FLess(step, pl.progress)
                     THEN after.progress = FZero /\ after.direction = 1
                     ELSE /\ after.progress = FRound(FDiff(pl.progress, step))
                          /\ after.direction = -1]_vars

\* An update has just clamped a platform at its end point: progress is 1, the
\* direction -1, and the platform stands on (end_x, end_y), away from its start.
C17_Witness ==
    /\ call.name = "MovingPlatform.update"
    /\ LET pl == level.platforms[call.target]
       IN  /\ pl.progress = FOne /\ pl.direction = -1
           /\ pl.x = pl.end_x /\ pl.y = pl.end_y
           /\ pl.x # pl.start_x /\ pl.y # pl.start_y

\* ---- C18
\* Traverse time, as the claim is worded: a platform whose speed divides 100
\* reaches an endpoint (progress 1 from 0, progress 0 from 1) with exactly
\* 100/speed updates made since it left the other one.
C18_TraverseTime ==
    \A i \in DOMAIN leg :
        LET pl == level.platforms[i]
        IN  (/\ pl.type = "moving" /\ pl.speed > 0 /\ 100 % pl.speed = 0
             /\ leg[i] > 0 /\ pl.progress \in {FZero, FOne}) =>
                leg[i] = 100 \div pl.speed

\* ---- C19
\* GravityPlatform.update: while is_falling is true an update adds
\* gravity_strength * gravity_direction * 0.5 to dy (half of what an actor gets)
\* and then adds the new dy to y, changing nothing else; while is_falling is
\* false an update changes nothing.
C19_GravityPlatformUpdate ==
    [][call'.name = "GravityPlatform.update" =>
         LET pl == level.platforms[call'.target]
             after == level'.platforms[call'.target]
         IN  IF pl.is_falling
             THEN /\ 2 * (after.dy - pl.dy) = gravity_strength * pl.gravity_direction
                  /\ after.y = pl.y + after.dy
                  /\ after = [pl EXCEPT !.dy = after.dy, !.y = after.y]
             ELSE after = pl]_vars

\* A platform falling upward has been updated more than once: its speed has grown
\* by half the gravity again and it is above where it started.
C19_Witness ==
    /\ call.name = "GravityPlatform.update"
    /\ call.pre.flag /\ call.pre.gravity_direction = -1 /\ call.pre.dy < 0
    /\ LET pl == level.platforms[call.target]
       IN  /\ 2 * (pl.dy - call.pre.dy) = -gravity_strength
           /\ pl.y < pl.original_y

\* ---- C20
\* A GravityPlatform that has started falling keeps falling until reset:
\* is_falling goes from true to false only in reset, whatever update and
\* set_gravity calls are made (a set_gravity back to the original direction
\* included), and from false to true only in a set_gravity that changes the
\* direction.
C20_FallsUntilReset ==
    [][\A i \in DOMAIN level.platforms :
         LET pl == level.platforms[i]
             after == level'.platforms[i]
         IN  pl.type = "gravity" =>
                 /\ (pl.is_falling /\ ~after.is_falling) =>
                        call'.name = "GravityPlatform.reset" /\ call'.target = i
                 /\ (pl.is_falling /\ call'.name \in {"GravityPlatform.update",
                                                      "GravityPlatform.set_gravity"}) =>
                        after.is_falling
                 /\ (~pl.is_falling /\ after.is_falling) =>
                        /\ call'.name = "GravityPlatform.set_gravity"
                        /\ call'.target = i
                        /\ call'.arg # pl.gravity_direction]_vars

\* set_gravity has put a falling platform back under its original gravity +1, and
\* the platform goes on falling, away from where it started.
C20_Witness ==
    /\ call.name = "GravityPlatform.set_gravity" /\ call.arg = 1
    /\ call.pre.flag /\ call.pre.gravity_direction = -1
    /\ LET pl == level.platforms[call.target]
       IN  /\ pl.is_falling /\ pl.gravity_direction = 1
           /\ pl.y # pl.original_y

\* ---- C21
\* GravityPlatform.reset(), from any state, restores y to original_y, dy to 0,
\* is_falling to false and gravity_direction to +1, whatever gravity the platform
\* was under, and changes nothing else; no operation on any platform ever
\* changes original_y.
C21_GravityPlatformReset ==
    [][/\ \A i \in DOMAIN level.platforms :
              level'.platforms[i].original_y = level.platforms[i].original_y
       /\ call'.name = "GravityPlatform.reset" =>
              LET pl == level.platforms[call'.target]
                  after == level'.platforms[call'.target]
              IN  /\ after.y = pl.original_y
                  /\ after.dy = 0
                  /\ ~after.is_falling
                  /\ after.gravity_direction = 1
                  /\ after = [pl EXCEPT !.y = after.y, !.dy = 0, !.is_falling = FALSE,
                                        !.gravity_direction = 1]]_vars

\* A platform falling upward under inverted gravity has been reset: it is back at
\* its original height, at rest, under gravity +1.
C21_Witness ==
    /\ call.name = "GravityPlatform.reset"
    /\ call.pre.flag /\ call.pre.gravity_direction = -1 /\ call.pre.dy < 0
    /\ LET pl == level.platforms[call.target]
       IN  /\ pl.y = pl.original_y /\ pl.dy = 0
           /\ ~pl.is_falling /\ pl.gravity_direction = 1

\* ---- C22
\* Level.reset() sets camera_x to 0 and resets every GravityPlatform (y back to
\* original_y, dy 0, not falling, gravity +1), and leaves every enemy (position,
\* velocity, patrol direction, gravity direction), every moving platform
\* (progress, direction, position), every static platform and every hazard
\* unchanged.
C22_LevelReset ==
    [][call'.name = "Level.reset" =>
         /\ level'.camera_x = 0
         /\ DOMAIN level'.platforms = DOMAIN level.platforms
         /\ \A i \in DOMAIN level.platforms :
                LET pl == level.platforms[i]
                    after == level'.platforms[i]
                IN  IF pl.type = "gravity"
                    THEN after = [pl EXCEPT !.y = pl.original_y, !.dy = 0,
                                            !.is_falling = FALSE,
                                            !.gravity_direction = 1]
                    ELSE after = pl
         /\ level'.enemies = level.enemies
         /\ level'.hazards = level.hazards]_vars

\* A reset of a level in which gravity had been inverted and things had moved:
\* the gravity platform is back at rest under gravity +1, while the enemy is
\* still under inverted gravity and away from where it was created, and the
\* moving platform is still under way.
C22_Witness ==
    /\ call.name = "Level.reset"
    /\ level.camera_x = 0
    /\ \E i \in DOMAIN level.platforms :
           LET pl == level.platforms[i]
           IN  /\ pl.type = "gravity"
               /\ pl.gravity_direction = 1 /\ ~pl.is_falling
               /\ pl.y = pl.original_y /\ pl.dy = 0
    /\ \E i \in DOMAIN level.platforms :
           LET pl == level.platforms[i]
           IN  pl.type = "moving" /\ pl.progress \notin {FZero, FOne}
    /\ \E i \in DOMAIN level.enemies :
           LET e == level.enemies[i]
           IN  /\ e.gravity_direction = -1
               /\ e.y # UnitLevel.enemies[i].y
               /\ e.x # e.start_x

\* ---- C23
\* One tick costs one life, as the claim is worded: a call of
\* Game._check_collisions in which the player touches an enemy, touches a hazard
\* or is out of bounds decrements lives by exactly one, whatever combination of
\* the conditions holds.
C23_OneTickOneLife ==
    [][(call'.name = "update" /\ state = "RUNNING") =>
         LET b == Game_before_collisions(game)
         IN  InContact(b) => lives' = lives - 1]_vars

\* ---- C24
\* Game._player_hit() decrements lives by one; if lives is then <= 0 the state
\* becomes GAME_OVER and neither the player nor the level is reset; otherwise the
\* player is put back on its spawn point (at rest, gravity +1), the level is
\* reset (camera 0, gravity platforms reset, enemies untouched) and the state is
\* left as it was (RUNNING stays RUNNING).  The score is never touched.
C24_PlayerHit ==
    [][call'.name = "Game._player_hit" =>
         /\ lives' = lives - 1
         /\ score' = score /\ running' = running /\ input_handler' = input_handler
         /\ IF lives' <= 0
            THEN /\ state' = "GAME_OVER"
                 /\ player' = player
                 /\ level' = level
            ELSE /\ state' = state
                 /\ player' = [player EXCEPT !.x = player.spawn_x, !.y = player.spawn_y,
                                             !.dx = 0, !.dy = 0,
                                             !.gravity_direction = 1,
                                             !.on_ground = FALSE]
                 /\ level'.camera_x = 0
                 /\ level'.enemies = level.enemies
                 /\ level'.hazards = level.hazards
                 /\ \A i \in DOMAIN level.platforms :
                        level.platforms[i].type # "gravity" =>
                            level'.platforms[i] = level.platforms[i]]_vars

\* A hit that was not the last: the player was walking to the right on the floor;
\* the game goes on with two lives, the player is back on the spawn point at
\* rest and the camera is at 0.
C24_Witness ==
    /\ call.name = "Game._player_hit"
    /\ call.pre.flag
    /\ state = "RUNNING" /\ lives = StartLives - 1
    /\ player.x = player.spawn_x /\ player.y = player.spawn_y
    /\ player.dx = 0 /\ player.dy = 0 /\ ~player.on_ground
    /\ player.is_moving /\ player.facing_right
    /\ level.camera_x = 0

\* ---- C25
\* Tick ordering.  The loop calls handle_events, handle_player_input and update
\* in that order.  Within update (state RUNNING): the player is updated against
\* the platforms as they stand; then the level is updated for the player's new
\* x, its platforms first and its enemies against the updated platforms; then
\* the collision checks read those post-update positions (a life is lost exactly
\* when the updated player touches an updated enemy or a hazard or is out of
\* bounds, and with no life lost player and level are exactly the updated
\* ones); then the score is raised to int(player.x / 10) of the player as the
\* checks left it.
C25_TickOrdering ==
    [][/\ pc = "events" => pc' \in {"input", "done"}
       /\ pc = "input" => pc' = "update" /\ call'.name = "handle_player_input"
       /\ pc = "update" => pc' = "events" /\ call'.name = "update"
       /\ (call'.name = "update" /\ state = "RUNNING") =>
              LET p1 == Player_update(player, level.platforms)
                  plats1 == [i \in DOMAIN level.platforms |->
                                Platform_update(level.platforms[i])]
                  enems1 == [i \in DOMAIN level.enemies |->
                                Enemy_update(level.enemies[i], plats1)]
                  touching ==
                      \/ \E i \in DOMAIN enems1 :
                             colliderect(Player_rect(p1), Enemy_rect(enems1[i]))
                      \/ \E i \in DOMAIN level.hazards :
                             colliderect(Player_rect(p1), Hazard_rect(level.hazards[i]))
                      \/ p1.y > Px(level_bounds[4] + player_height)
                      \/ p1.y < Px(level_bounds[3] - player_height)
              IN  /\ lives' < lives <=> touching
                  /\ lives' = lives =>
                         /\ player' = p1
                         /\ level'.platforms = plats1
                         /\ level'.enemies = enems1
                         /\ level'.camera_x =
                                Max(Px(level_bounds[1]),
                                    Min(p1.x - Px(window_width \div 3),
                                        Px(level_bounds[2] - window_width)))
                  /\ level'.enemies = enems1
                  /\ score' = Max(score, DivTrunc(player'.x, ScoreStep * Scale))]_vars

\* An update that cost a life although nothing was in contact when it was
\* called: the contact arose from the moves of that same update.  The player is
\* back on its spawn point and the game goes on.
C25_Witness ==
    /\ call.name = "update" /\ ~call.ret /\ call.hits = 1
    /\ pc = "events" /\ state = "RUNNING" /\ lives = StartLives - 1
    /\ player.x = player.spawn_x /\ player.y = player.spawn_y
    /\ \E i \in DOMAIN level.enemies : level.enemies[i].x # level.enemies[i].start_x

\* ---- C26
\* While Game.state is PAUSED or GAME_OVER, update() and handle_player_input()
\* change nothing: player, level, lives, score, state (and the input handler) are
\* as before.  handle_events() goes on working in every state: a frame with the
\* restart key restarts the game; otherwise a frame with the pause key turns
\* RUNNING into PAUSED and PAUSED into RUNNING (GAME_OVER stays) and a frame
\* without it leaves the state alone, and neither changes player, level, lives or
\* score.
C26_PausedFreeze ==
    [][/\ (state # "RUNNING" /\ call'.name \in {"handle_player_input", "update"}) =>
              UNCHANGED <<player, level, lives, score, state, running, input_handler>>
       /\ (call'.name = "handle_events" /\ running') =>
              LET pressed == input_handler'.pressed_this_frame
              IN  \/ /\ state' = "RUNNING" /\ lives' = StartLives /\ score' = 0
                     /\ level' = create_demo_level
                     /\ player' = Player(Px(player_spawn[1]), Px(player_spawn[2]))
                     /\ input_handler' = InputHandler
                  \/ /\ "RESTART" \notin pressed
                     /\ UNCHANGED <<player, level, lives, score>>
                     /\ state' = IF "PAUSE" \in pressed
                                 THEN IF state = "RUNNING" THEN "PAUSED"
                                      ELSE IF state = "PAUSED" THEN "RUNNING"
                                      ELSE state
                                 ELSE state]_vars

\* update() has been called on a paused game whose player is in mid-air, moving
\* and with the RIGHT key held: the player has not moved.
C26_Witness ==
    /\ call.name = "update" /\ state = "PAUSED" /\ pc = "events"
    /\ ~player.on_ground /\ player.dy # 0 /\ player.dx # 0
    /\ call.pre.dy = player.dy
    /\ "MOVE_RIGHT" \in input_handler.held_actions

\* ---- C27
\* Game.restart(), from any state (RUNNING, PAUSED or GAME_OVER) and any lives
\* and score, yields state RUNNING, lives 3, score 0, a freshly built level and a
\* new player on the level's spawn point with zero velocity, off the ground and
\* under gravity +1.
C27_Restart ==
    [][call'.name = "Game.restart" =>
         /\ state' = "RUNNING" /\ lives' = 3 /\ score' = 0
         /\ level' = create_demo_level
         /\ player'.x = Px(player_spawn[1]) /\ player'.y = Px(player_spawn[2])
         /\ player'.spawn_x = player'.x /\ player'.spawn_y = player'.y
         /\ player'.dx = 0 /\ player'.dy = 0
         /\ player'.gravity_direction = 1 /\ ~player'.on_ground
         /\ running' = running]_vars

\* A restart of a game that was over (no lives left, some score made) with the
\* player standing on the floor: the game runs again with three lives, no score
\* and a fresh player and level.
C27_Witness ==
    /\ call.name = "Game.restart"
    /\ call.ret /\ call.arg[1] <= 0 /\ call.arg[2] > 0 /\ call.pre.flag
    /\ state = "RUNNING" /\ lives = StartLives /\ score = 0
    /\ level = create_demo_level
    /\ player = Player(Px(player_spawn[1]), Px(player_spawn[2]))

\* ---- C28
\* Level.is_player_out_of_bounds(player_x, y, h) returns true exactly when
\* y > max_y + h or y < min_y - h: the inequalities are strict, so y exactly on
\* either limit is in bounds and the first sub-pixel beyond it is out; the result
\* is the same for every player_x.
C28_OutOfBounds ==
    call.name = "Level.is_player_out_of_bounds" =>
        LET y == call.arg[2]
            h == call.arg[3]
            below == y - Px(h) - Px(level_bounds[4])
            above == Px(level_bounds[3]) - Px(h) - y
        IN  /\ call.ret <=> (below > 0 \/ above > 0)
            /\ (below = 0 \/ above = 0) => ~call.ret
            /\ (below = 1 \/ above = 1) => call.ret
            /\ \A x \in BoundsXs : Level_is_player_out_of_bounds(x, y, h) = call.ret

\* The test has been made for a player exactly on the lower limit and to the
\* right of the level: it is in bounds.
C28_Witness ==
    /\ call.name = "Level.is_player_out_of_bounds"
    /\ call.arg[1] > Px(level_bounds[2])
    /\ call.arg[2] = Px(level_bounds[4] + call.arg[3])
    /\ call.arg[3] = player_height
    /\ ~call.ret

\* ---- C29
\* Camera clamp, as the claim is worded: after every Level.update(player_x), for
\* any player_x and any level bounds, camera_x >= min_x and
\* camera_x <= max_x - window_width.
C29_CameraClamp ==
    call.name = "Level.update" =>
        /\ level.camera_x >= Px(level.level_bounds[1])
        /\ level.camera_x <= Px(level.level_bounds[2] - window_width)

\* Camera clamp, as the code has it: after every Level.update(player_x) camera_x
\* is max(min_x, min(player_x - window_width // 3, max_x - window_width)).  So
\* camera_x >= min_x always; camera_x <= max_x - window_width whenever the level
\* is at least as wide as the window; and in a narrower level the camera stands
\* at min_x, which is then right of max_x - window_width.
C29_CameraClampLeftFirst ==
    call.name = "Level.update" =>
        LET min_x == Px(level.level_bounds[1])
            right == Px(level.level_bounds[2] - window_width)
            target == call.arg - Px(window_width \div 3)
            cam == level.camera_x
        IN  /\ cam >= min_x
            /\ right >= min_x => cam <= right
            /\ right < min_x => cam = min_x
            /\ (right >= min_x /\ target >= min_x /\ target <= right) => cam = target

\* Level.update on a level narrower than the window, with the player at its
\* right end: the camera stands on the left bound, past max_x - window_width.
C29_Witness ==
    /\ call.name = "Level.update"
    /\ level.level_bounds[2] - level.level_bounds[1] < window_width
    /\ level.level_bounds[1] > 0
    /\ call.arg >= Px(level.level_bounds[2])
    /\ level.camera_x = Px(level.level_bounds[1])
    /\ level.camera_x > Px(level.level_bounds[2] - window_width)

\* The actions whose keys have an event of the given type among the events.
ActionsOf(events, type) ==
    {InputHandler_get_action_for_key(events[i].key) :
        i \in {j \in DOMAIN events : events[j].type = type}}

\* ---- C30
\* Input edge detection.  After process_events the pressed actions are exactly
\* those with a KEYDOWN among the events of that call (so a press is forgotten by
\* the next call), while an action stays in held_actions from its KEYDOWN until
\* its KEYUP; nothing but process_events touches the handler.  In the frame's
\* handle_player_input, the game RUNNING, the jump is made only if JUMP was
\* pressed in that frame and the gravity is flipped exactly if FLIP_GRAVITY was:
\* a key held across many frames acts once, in the frame of its press.  (With
\* the game paused or over handle_player_input does nothing, so a press made then
\* never acts.)
C30_EdgeDetection ==
    [][/\ call'.name = "handle_events" =>
              LET downs == ActionsOf(call'.arg, "KEYDOWN")
                  ups == ActionsOf(call'.arg, "KEYUP")
              IN  /\ input_handler'.pressed_this_frame = downs
                  /\ input_handler'.held_actions = (input_handler.held_actions \cup downs) \ ups
       /\ call'.name # "handle_events" => input_handler' = input_handler
       /\ (call'.name = "handle_player_input" /\ state # "RUNNING") =>
              player' = player /\ level' = level
       /\ (call'.name = "handle_player_input" /\ state = "RUNNING") =>
              LET pressed == input_handler.pressed_this_frame
              IN  /\ player'.gravity_direction # player.gravity_direction
                         <=> "FLIP_GRAVITY" \in pressed
                  /\ "FLIP_GRAVITY" \notin pressed => level' = level
                  /\ "JUMP" \notin pressed => player'.dy = player.dy
                  /\ ("JUMP" \in pressed /\ player.on_ground) =>
                         player'.dy = -player_jump_force * player.gravity_direction
                  /\ pressed = {} => player' = Player_move(player, 0)]_vars

\* The jump key and the flip key are both held from earlier frames, with the
\* player standing on the ceiling it was flipped to: this frame's
\* handle_player_input neither jumps nor flips.
C30_Witness ==
    /\ call.name = "handle_player_input" /\ state = "RUNNING"
    /\ input_handler.held_actions = {"JUMP", "FLIP_GRAVITY"}
    /\ input_handler.pressed_this_frame = {}
    /\ keys_down = ActionKeys
    /\ call.pre.flag /\ player.on_ground /\ player.dy = 0
    /\ player.gravity_direction = -1

\* The fields C31 names of a platform, an enemy and a hazard.
SameBox(a, b) == a.x = b.x /\ a.y = b.y /\ a.width = b.width /\ a.height = b.height

\* C31: LevelLoader.save_to_json followed by LevelLoader.load_from_json gives a
\* level with the same bounds and spawn, as many platforms, enemies and hazards
\* in the same order, each platform of the same kind, and every entity with the
\* same x, y, width and height (moving platforms also the same end_x, end_y and
\* speed, enemies the same patrol_distance and speed).
C31_RoundTrip ==
    [][call'.name = "LevelLoader.save_to_json; load_from_json" =>
          /\ level'.level_bounds = level.level_bounds
          /\ level'.player_spawn = level.player_spawn
          /\ Len(level'.platforms) = Len(level.platforms)
          /\ Len(level'.enemies) = Len(level.enemies)
          /\ Len(level'.hazards) = Len(level.hazards)
          /\ \A i \in DOMAIN level.platforms :
                LET a == level.platforms[i]
                    b == level'.platforms[i]
                IN  /\ b.type = a.type
                    /\ SameBox(a, b)
                    /\ a.type = "moving" =>
                          b.end_x = a.end_x /\ b.end_y = a.end_y /\ b.speed = a.speed
          /\ \A i \in DOMAIN level.enemies :
                LET a == level.enemies[i]
                    b == level'.enemies[i]
                IN  /\ SameBox(a, b)
                    /\ b.patrol_distance = a.patrol_distance
                    /\ b.speed = a.speed
          /\ \A i \in DOMAIN level.hazards :
                SameBox(level.hazards[i], level'.hazards[i])]_vars

\* C32: once Player.update has landed the player (on_ground, dy = 0), every
\* update with no input (dx = 0, no jump and no flip in between) ends with
\* on_ground true and y unchanged.
C32_RestingStability ==
    [][(call'.name = "update" /\ player.on_ground /\ player.dy = 0 /\ player.dx = 0) =>
          player'.on_ground /\ player'.y = player.y]_vars

\* C33: in every state the game reaches, lives is at least 0 and at most the
\* three lives a game starts with.
C33_LivesInRange == 0 <= lives /\ lives <= StartLives

\* C34: after the horizontal pass of Player.update the player's x lies between
\* its x before the tick and that x plus dx, whatever the platform list.
C34_HorizontalCorrectionBounded ==
    [][call'.name = "update" =>
          LET x == Player_before_vertical(player, level.platforms).x
          IN  /\ Min(player.x, player.x + player.dx) <= x
              /\ x <= Max(player.x, player.x + player.dx)]_vars

\* C35: the state is GAME_OVER exactly when lives <= 0; the game leaves
\* GAME_OVER only by restart(); a handle_events in GAME_OVER, pause key or not,
\* changes nothing of the game but what the input handler holds; and PAUSED is
\* entered only from RUNNING, by handle_events.
C35_GameOverMachine ==
    /\ [](state = "GAME_OVER" <=> lives <= 0)
    /\ [][/\ (state = "GAME_OVER" /\ state' # "GAME_OVER") =>
                 call'.name = "Game.restart" /\ state' = "RUNNING" /\ lives' = StartLives
          /\ (state = "GAME_OVER" /\ call'.name = "Game.handle_events") =>
                 /\ state' = "GAME_OVER"
                 /\ UNCHANGED <<lives, score, running, player, level>>
          /\ (state' = "PAUSED" /\ state # "PAUSED") =>
                 state = "RUNNING" /\ call'.name = "Game.handle_events"]_vars

\* The pause key was tapped while the game was over: it still is.
C35_Witness ==
    /\ call.name = "Game.handle_events"
    /\ "PAUSE" \in input_handler.pressed_this_frame
    /\ state = "GAME_OVER" /\ lives = 0

\* The magnitude of a speed.
Abs(v) == IF v < 0 THEN -v ELSE v

\* C36: starting from dy = 0, after every move, jump, flip_gravity, update and
\* reset of the player, |dy| <= max(max_fall_speed, player_jump_force).
C36_SpeedBounded == Abs(player.dy) <= Max(max_fall_speed, player_jump_force)

\* An update of a player that was falling at full speed when its gravity was
\* flipped: it still moves down, against the new gravity.
C36_Witness ==
    /\ call.name = "update"
    /\ call.pre.dy = max_fall_speed /\ call.pre.gravity_direction = -1
    /\ player.dy > 0 /\ ~player.on_ground

\* C37, as stated: after any number of updates against any platform list, an
\* enemy with speed > 0 and patrol_distance >= 0 has
\* |x - start_x| < patrol_distance + speed.
C37_PatrolBand ==
    \A i \in DOMAIN level.enemies :
        LET e == level.enemies[i]
        IN  Abs(e.x - e.start_x) < e.patrol_distance + e.speed

\* C37, amended: -(patrol_distance + speed) <= x - start_x < patrol_distance + speed,
\* the left inequality strict when patrol_distance > 0; an enemy with
\* patrol_distance 0 stands at start_x or a full step left of it.
C37_PatrolBandLeftClosed ==
    \A i \in DOMAIN level.enemies :
        LET e == level.enemies[i]
            d == e.x - e.start_x
        IN  /\ d < e.patrol_distance + e.speed
            /\ -(e.patrol_distance + e.speed) <= d
            /\ e.patrol_distance > 0 => -(e.patrol_distance + e.speed) < d
            /\ e.patrol_distance = 0 => d \in {0, -e.speed}

\* An enemy with patrol_distance 0 after an update that took it a full step to
\* the left of start_x.
C37_Witness ==
    /\ call.name = "Enemy.update"
    /\ \E i \in DOMAIN level.enemies :
          LET e == level.enemies[i]
          IN  /\ e.patrol_distance = 0 /\ e.speed > 1
              /\ e.x = e.start_x - e.speed

\* Enemy i, which always has one of the two directions, has each of them again
\* and again.
Reverses(i) ==
    /\ (level.enemies[i].direction = 1) ~> (level.enemies[i].direction = -1)
    /\ (level.enemies[i].direction = -1) ~> (level.enemies[i].direction = 1)

\* C38: while the enemies keep being updated, an enemy (speed > 0) that moves
\* right eventually moves left and one that moves left eventually moves right,
\* so that it has each direction infinitely often.
C38_PatrolLiveness == Reverses(1) /\ Reverses(2)

\* An enemy that has turned at both boundaries: it moves right again, from the
\* left of where it started.
C38_Witness ==
    /\ call.name = "Enemy.update"
    /\ \E i \in DOMAIN level.enemies :
          /\ call.target = i
          /\ level.enemies[i].speed > 0
          /\ level.enemies[i].direction = 1
          /\ level.enemies[i].x < level.enemies[i].start_x

\* C39: an update of a running game leaves score = max(score before,
\* int(player.x / 10)); the score is never negative and never decreases except
\* in restart(), which sets it to 0.
C39_ScoreMonotone ==
    /\ [](score >= 0)
    /\ [][/\ (call'.name = "Game.update" /\ state = "RUNNING") =>
                 score' = Max(score, DivTrunc(player'.x, ScoreStep * Scale))
          /\ call'.name # "Game.restart" => score' >= score
          /\ call'.name = "Game.restart" => score' = 0]_vars

\* An update that cost a life after the player had scored: the player is back
\* at the spawn point, short of the first score step, and the score is kept.
C39_Witness ==
    /\ call.name = "Game.update"
    /\ lives < StartLives
    /\ player.x = player.spawn_x
    /\ score > 0 /\ score > DivTrunc(player.x, ScoreStep * Scale)

\* C40: after any sequence of KEYDOWN and KEYUP events, an action with a
\* primary and a secondary key is in held_actions if and only if at least one
\* of its two keys is down.
C40_HeldWhileAnyKeyDown ==
    \A i \in DOMAIN DEFAULT_BINDINGS :
        LET binding == DEFAULT_BINDINGS[i]
        IN  binding[3] # "" =>
                (binding[1] \in input_handler.held_actions
                    <=> (binding[2] \in keys_down \/ binding[3] \in keys_down))

====
